---- MODULE Spec2Model ----
(***************************************************************************)
(* A model of the serq front end: the Lexer (src/src/lexer/mod.rs), its    *)
(* keyword recogniser (src/src/lexer/keywords.rs) and the Pratt expression *)
(* parser (src/src/parser/expr.rs), the item and statement parser          *)
(* (src/src/parser/mod.rs, src/src/parser/stmt.rs) and the position of a   *)
(* byte offset (src/src/diagnostic/span.rs).                               *)
(*                                                                         *)
(* A source text is a sequence of characters, each a one-character string. *)
(* The Lexer's CharIndices cursor is the number of characters consumed;    *)
(* byte offsets are computed from the UTF-8 length of each character.      *)
(* The Parser's Peekable<Lexer> is the sequence of the Lexer's tokens and  *)
(* the number of them the Parser has taken.                                *)
(***************************************************************************)
EXTENDS Integers, Sequences, FiniteSets, TLC

VARIABLES source, cursor, previous, emitted, ended, parsed, items, position,
          padding, constructed, consumed

vars == <<source, cursor, previous, emitted, ended, parsed, items, position,
          padding, constructed, consumed>>

-----------------------------------------------------------------------------
(* Bounds of the model. *)

\* Longest source text drawn from Alphabet.
MaxLen == 4

\* Longest all-lowercase word drawn from KwLetters.
MaxWordLen == 3

\* How many times the iterator is pulled after it has ended.
MaxEndedPulls == 2

-----------------------------------------------------------------------------
(* Characters. *)

\* Option<char>::None of peek / consume.
NoChar == "<none>"

AsciiLower ==
    {"a", "b", "c", "d", "e", "f", "g", "h", "i", "j", "k", "l", "m",
     "n", "o", "p", "q", "r", "s", "t", "u", "v", "w", "x", "y", "z"}

AsciiUpper == {"A", "F", "N", "X"}

AsciiDigit == {"0", "1", "2", "3", "4", "5", "6", "7", "8", "9"}

\* A non-ASCII letter (XID_Start and XID_Continue), two bytes in UTF-8.
NonAsciiLetter == {"é"}

\* A character that starts no token, three bytes in UTF-8.
NonAsciiSymbol == {"€"}

\* char::len_utf8
len_utf8(c) ==
    IF c \in NonAsciiLetter THEN 2
    ELSE IF c \in NonAsciiSymbol THEN 3
    ELSE 1

\* char::is_whitespace, on the characters of the model.
is_whitespace(c) == c \in {" ", "\t", "\n", "\r"}

is_ascii_lowercase(c) == c \in AsciiLower

is_ascii_digit(c) == c \in AsciiDigit

is_xid_start(c) == c \in AsciiLower \cup AsciiUpper \cup NonAsciiLetter

is_xid_continue(c) ==
    c \in AsciiLower \cup AsciiUpper \cup AsciiDigit \cup NonAsciiLetter \cup {"_"}

is_ident1(c) == c = "_" \/ is_xid_start(c)

is_ident2(c) == is_xid_continue(c)

-----------------------------------------------------------------------------
(* Cursor primitives of the Lexer.  i is the number of characters consumed. *)

RECURSIVE ByteOffset(_, _)
\* CharIndices::offset: the byte offset of the next character.
ByteOffset(src, i) ==
    IF i = 0 THEN 0 ELSE ByteOffset(src, i - 1) + len_utf8(src[i])

\* A variant of offset() that counts the characters consumed, not their bytes.
offset_in_chars(src, i) == i

\* Lexer::offset: the byte offset of the CharIndices.
offset(src, i) == ByteOffset(src, i)

peek(src, i) == IF i < Len(src) THEN src[i + 1] ELSE NoChar

peek2(src, i) == IF i + 1 < Len(src) THEN src[i + 2] ELSE NoChar

\* The cursor after one consume(): it does not move at the end of input.
consume(src, i) == IF i < Len(src) THEN i + 1 ELSE i

try_eat(src, i, c) ==
    IF peek(src, i) = c
    THEN [ok |-> TRUE, cursor |-> consume(src, i)]
    ELSE [ok |-> FALSE, cursor |-> i]

match1(src, i, c, a, b) ==
    IF peek(src, i) = c
    THEN [kind |-> a, cursor |-> consume(src, i)]
    ELSE [kind |-> b, cursor |-> i]

\* A variant of match2 that tests the first of the two characters only.
match2_first_only(src, i, c1, a, c2, b, c) ==
    IF peek(src, i) = c1 THEN [kind |-> a, cursor |-> consume(src, i)]
    ELSE [kind |-> c, cursor |-> i]

match2(src, i, c1, a, c2, b, c) ==
    IF peek(src, i) = c1 THEN [kind |-> a, cursor |-> consume(src, i)]
    ELSE IF peek(src, i) = c2 THEN [kind |-> b, cursor |-> consume(src, i)]
    ELSE [kind |-> c, cursor |-> i]

Token(k, s, e) == [kind |-> k, start |-> s, end |-> e]

-----------------------------------------------------------------------------
(* Keyword recogniser, src/src/lexer/keywords.rs. *)

MAX_KEYWORD_LEN == 8

\* The zero byte that fills the unused tail of a keyword buffer.
Nul == "<nul>"

\* [0u8; MAX_KEYWORD_LEN]
EmptyBuf == [k \in 1..MAX_KEYWORD_LEN |-> Nul]

\* kw: the word copied into a zero-filled buffer of MAX_KEYWORD_LEN bytes.
kw(input) ==
    [k \in 1..MAX_KEYWORD_LEN |-> IF k <= Len(input) THEN input[k] ELSE Nul]

W_break == <<"b", "r", "e", "a", "k">>
W_const == <<"c", "o", "n", "s", "t">>
W_continue == <<"c", "o", "n", "t", "i", "n", "u", "e">>
W_else == <<"e", "l", "s", "e">>
W_enum == <<"e", "n", "u", "m">>
W_false == <<"f", "a", "l", "s", "e">>
W_for == <<"f", "o", "r">>
W_fn == <<"f", "n">>
W_if == <<"i", "f">>
W_let == <<"l", "e", "t">>
W_mut == <<"m", "u", "t">>
W_pub == <<"p", "u", "b">>
W_return == <<"r", "e", "t", "u", "r", "n">>
W_true == <<"t", "r", "u", "e">>
W_while == <<"w", "h", "i", "l", "e">>

match_kw(buf, pred, token) == IF buf = pred THEN token ELSE "Identifier"

\* A variant of check_keyword that dispatches on the first byte alone, without
\* the second dispatch byte of the arms of c, e and f.
check_keyword_first_byte(buf) ==
    IF buf[1] = "b" THEN match_kw(buf, kw(W_break), "Break")
    ELSE IF buf[1] = "c" THEN match_kw(buf, kw(W_const), "Const")
    ELSE IF buf[1] = "e" THEN match_kw(buf, kw(W_else), "Else")
    ELSE IF buf[1] = "f" THEN match_kw(buf, kw(W_false), "False")
    ELSE IF buf[1] = "i" THEN match_kw(buf, kw(W_if), "If")
    ELSE IF buf[1] = "l" THEN match_kw(buf, kw(W_let), "Let")
    ELSE IF buf[1] = "m" THEN match_kw(buf, kw(W_mut), "Mut")
    ELSE IF buf[1] = "p" THEN match_kw(buf, kw(W_pub), "Pub")
    ELSE IF buf[1] = "r" THEN match_kw(buf, kw(W_return), "Return")
    ELSE IF buf[1] = "t" THEN match_kw(buf, kw(W_true), "True")
    ELSE IF buf[1] = "w" THEN match_kw(buf, kw(W_while), "While")
    ELSE "Identifier"

\* The match arms of check_keyword, in the order of the source.  buf[0] of
\* the source is buf[1] here.
check_keyword(buf) ==
    IF buf[1] = "b" THEN match_kw(buf, kw(W_break), "Break")
    ELSE IF buf[1] = "c" /\ buf[4] = "s" THEN match_kw(buf, kw(W_const), "Const")
    ELSE IF buf[1] = "c" /\ buf[4] = "t" THEN match_kw(buf, kw(W_continue), "Continue")
    ELSE IF buf[1] = "e" /\ buf[2] = "l" THEN match_kw(buf, kw(W_else), "Else")
    ELSE IF buf[1] = "e" /\ buf[2] = "n" THEN match_kw(buf, kw(W_enum), "Enum")
    ELSE IF buf[1] = "f" /\ buf[2] = "a" THEN match_kw(buf, kw(W_false), "False")
    ELSE IF buf[1] = "f" /\ buf[2] = "n" THEN "Fn"
    ELSE IF buf[1] = "f" /\ buf[2] = "o" THEN match_kw(buf, kw(W_for), "For")
    ELSE IF buf[1] = "i" THEN match_kw(buf, kw(W_if), "If")
    ELSE IF buf[1] = "l" THEN match_kw(buf, kw(W_let), "Let")
    ELSE IF buf[1] = "m" THEN match_kw(buf, kw(W_mut), "Mut")
    ELSE IF buf[1] = "p" THEN match_kw(buf, kw(W_pub), "Pub")
    ELSE IF buf[1] = "r" THEN match_kw(buf, kw(W_return), "Return")
    ELSE IF buf[1] = "t" THEN match_kw(buf, kw(W_true), "True")
    ELSE IF buf[1] = "w" THEN match_kw(buf, kw(W_while), "While")
    ELSE "Identifier"

-----------------------------------------------------------------------------
(* Lexer, src/src/lexer/mod.rs. *)

\* A variant of should_terminate_expr that lists Plus and Minus in place of
\* PlusPlus and MinusMinus.
should_terminate_expr_single_operators(token) ==
    token \in {"RightParen", "RightBrace", "RightBracket",
               "Identifier", "String", "Number",
               "Break", "Continue", "Return",
               "Plus", "Minus"}

should_terminate_expr(token) ==
    token \in {"RightParen", "RightBrace", "RightBracket",
               "Identifier", "String", "Number",
               "Break", "Continue", "Return",
               "PlusPlus", "MinusMinus"}

RECURSIVE line_comment_loop(_, _)
\* The while loop of line_comment: the cursor at the newline or the end.
line_comment_loop(src, i) ==
    IF peek(src, i) = NoChar \/ peek(src, i) = "\n" THEN i
    ELSE line_comment_loop(src, consume(src, i))

\* A variant of line_comment that reads the start of the span after the loop.
line_comment_late_start(src, i) ==
    LET j == line_comment_loop(src, i)
    IN [token |-> Token("Comment", offset(src, j), offset(src, j)), cursor |-> j]

line_comment(src, i) ==
    LET j == line_comment_loop(src, i)
    IN [token |-> Token("Comment", offset(src, i), offset(src, j)), cursor |-> j]

RECURSIVE multi_line_comment_loop(_, _)
\* The while loop of multi_line_comment: the cursor at a closing "*/" or
\* at the end of input.
multi_line_comment_loop(src, i) ==
    IF peek(src, i) = NoChar THEN i
    ELSE IF peek(src, i) = "*" /\ peek2(src, i) = "/" THEN i
    ELSE multi_line_comment_loop(src, consume(src, i))

\* A variant of multi_line_comment that consumes only the slash before it
\* looks for the closing characters, so that the star that opens the comment
\* can close it.
multi_line_comment_overlapping(src, i) ==
    LET opened == consume(src, i)
        j == multi_line_comment_loop(src, opened)
        star == peek(src, j)
        afterStar == consume(src, j)
        slash == peek(src, afterStar)
        afterSlash == consume(src, afterStar)
        kind == IF star # NoChar /\ slash # NoChar THEN "Comment" ELSE "Error"
    IN [token |-> Token(kind, offset(src, i), offset(src, afterSlash)),
        cursor |-> afterSlash]

multi_line_comment(src, i) ==
    LET opened == consume(src, consume(src, i))
        j == multi_line_comment_loop(src, opened)
        star == peek(src, j)
        afterStar == consume(src, j)
        slash == peek(src, afterStar)
        afterSlash == consume(src, afterStar)
        kind == IF star # NoChar /\ slash # NoChar THEN "Comment" ELSE "Error"
    IN [token |-> Token(kind, offset(src, i), offset(src, afterSlash)),
        cursor |-> afterSlash]

\* Option<Token>::None of whitespace().
NoToken == [kind |-> "<none>", start |-> 0, end |-> 0]

RECURSIVE whitespace_loop(_, _, _, _)
\* The while loop of whitespace(); token is the local of the same name.
whitespace_loop(src, i, prev, token) ==
    LET c == peek(src, i) IN
    IF c = NoChar THEN [token |-> token, cursor |-> i]
    ELSE IF c = "\n" THEN
        whitespace_loop(src, consume(src, i), prev,
            IF should_terminate_expr(prev)
            THEN Token("Semicolon", offset(src, i), offset(src, i))
            ELSE token)
    ELSE IF is_whitespace(c) THEN whitespace_loop(src, consume(src, i), prev, token)
    ELSE IF c = "/" /\ peek2(src, i) = "/" THEN line_comment(src, i)
    ELSE IF c = "/" /\ peek2(src, i) = "*" THEN multi_line_comment(src, i)
    ELSE [token |-> token, cursor |-> i]

\* A variant of whitespace() that treats the end of input as a newline: it
\* returns a Semicolon there after a token that terminates an expression.
whitespace_terminated_at_end(src, i, prev) ==
    LET r == whitespace_loop(src, i, prev, NoToken) IN
    IF r.token = NoToken /\ r.cursor = Len(src) /\ should_terminate_expr(prev)
    THEN [token |-> Token("Semicolon", offset(src, r.cursor), offset(src, r.cursor)),
          cursor |-> r.cursor]
    ELSE r

\* A variant of whitespace() that leaves the cursor where it was when it
\* returns a synthesized Semicolon.
whitespace_in_place(src, i, prev) ==
    LET r == whitespace_loop(src, i, prev, NoToken) IN
    IF r.token.kind = "Semicolon" THEN [token |-> r.token, cursor |-> i] ELSE r

whitespace(src, i, prev) == whitespace_loop(src, i, prev, NoToken)

RECURSIVE string_loop(_, _)
\* A variant of the loop of string() that also stops at a newline.
string_loop_to_newline(src, i) ==
    IF peek(src, i) = NoChar \/ peek(src, i) \in {"\"", "\n"} THEN i
    ELSE string_loop(src, consume(src, i))

\* The while loop of string(): the cursor at a quote or at the end of input.
string_loop(src, i) ==
    IF peek(src, i) = NoChar \/ peek(src, i) = "\"" THEN i
    ELSE string_loop(src, consume(src, i))

\* string(), entered after the opening quote was consumed.
string(src, i) ==
    LET j == string_loop(src, i)
    IN [kind |-> IF peek(src, j) # NoChar THEN "String" ELSE "Error",
        cursor |-> consume(src, j)]

RECURSIVE number_loop(_, _)
number_loop(src, i) ==
    IF peek(src, i) = NoChar \/ ~is_ascii_digit(peek(src, i)) THEN i
    ELSE number_loop(src, consume(src, i))

number(src, i) == [kind |-> "Number", cursor |-> number_loop(src, i)]

RECURSIVE name_loop(_, _, _, _, _)
\* The while loop of name(): the locals keyword_buf, cursor (here cur) and
\* keyword_candidate, and the Lexer's cursor i.
name_loop(src, i, keyword_buf, cur, keyword_candidate) ==
    LET c == peek(src, i) IN
    IF c = NoChar THEN
        [buf |-> keyword_buf, cur |-> cur, candidate |-> keyword_candidate, cursor |-> i]
    ELSE IF keyword_candidate /\ cur < MAX_KEYWORD_LEN /\ is_ascii_lowercase(c) THEN
        name_loop(src, consume(src, i), [keyword_buf EXCEPT ![cur + 1] = c],
                  cur + 1, keyword_candidate)
    ELSE IF is_ident2(c) THEN
        name_loop(src, consume(src, i), keyword_buf, cur, FALSE)
    ELSE
        [buf |-> keyword_buf, cur |-> cur, candidate |-> keyword_candidate, cursor |-> i]

\* name(first), entered after the first character was consumed.
name(src, i, first) ==
    LET cand0 == is_ascii_lowercase(first)
        buf0 == IF cand0 THEN [EmptyBuf EXCEPT ![1] = first] ELSE EmptyBuf
        cur0 == IF cand0 THEN 1 ELSE 0
        r == name_loop(src, i, buf0, cur0, cand0)
    IN [kind |-> IF r.cur > 0 /\ r.candidate THEN check_keyword(r.buf) ELSE "Identifier",
        cursor |-> r.cursor]

\* The match of scan() on the consumed character c; i is the cursor after c.
scan_char(src, i, c) ==
    IF is_ident1(c) THEN name(src, i, c)
    ELSE IF is_ascii_digit(c) THEN number(src, i)
    ELSE IF c = "(" THEN [kind |-> "LeftParen", cursor |-> i]
    ELSE IF c = ")" THEN [kind |-> "RightParen", cursor |-> i]
    ELSE IF c = "{" THEN [kind |-> "LeftBrace", cursor |-> i]
    ELSE IF c = "}" THEN [kind |-> "RightBrace", cursor |-> i]
    ELSE IF c = "[" THEN [kind |-> "LeftBracket", cursor |-> i]
    ELSE IF c = "]" THEN [kind |-> "RightBracket", cursor |-> i]
    ELSE IF c = "+" THEN match2(src, i, "=", "PlusEq", "+", "PlusPlus", "Plus")
    ELSE IF c = "-" THEN match2(src, i, "=", "MinusEq", "-", "MinusMinus", "Minus")
    ELSE IF c = "*" THEN match1(src, i, "=", "StarEq", "Star")
    ELSE IF c = "/" THEN match1(src, i, "=", "SlashEq", "Slash")
    ELSE IF c = "%" THEN match1(src, i, "=", "PercentEq", "Percent")
    ELSE IF c = "&" THEN match2(src, i, "=", "AndEq", "&", "AndAnd", "And")
    ELSE IF c = "|" THEN match2(src, i, "=", "OrEq", "|", "OrOr", "Or")
    ELSE IF c = "^" THEN match1(src, i, "=", "CaretEq", "Caret")
    ELSE IF c = "<" THEN
        IF try_eat(src, i, "<").ok
        THEN match1(src, try_eat(src, i, "<").cursor, "=", "ShlEq", "Shl")
        ELSE match1(src, i, "=", "LtEq", "Lt")
    ELSE IF c = ">" THEN
        IF try_eat(src, i, ">").ok
        THEN match1(src, try_eat(src, i, ">").cursor, "=", "ShrEq", "Shr")
        ELSE match1(src, i, "=", "GtEq", "Gt")
    ELSE IF c = "=" THEN match1(src, i, "=", "EqEq", "Eq")
    ELSE IF c = "!" THEN match1(src, i, "=", "BangEq", "Bang")
    ELSE IF c = "~" THEN [kind |-> "Tilde", cursor |-> i]
    ELSE IF c = "." THEN [kind |-> "Dot", cursor |-> i]
    ELSE IF c = ":" THEN [kind |-> "Colon", cursor |-> i]
    ELSE IF c = "," THEN [kind |-> "Comma", cursor |-> i]
    ELSE IF c = ";" THEN [kind |-> "Semicolon", cursor |-> i]
    ELSE IF c = "\"" THEN string(src, i)
    ELSE [kind |-> "Error", cursor |-> i]

\* A variant of scan() whose Error tokens end one byte after their start.
scan_error_one_byte(src, i, prev) ==
    LET ws == whitespace(src, i, prev) IN
    IF ws.token # NoToken THEN
        [token |-> ws.token, cursor |-> ws.cursor, previous |-> ws.token.kind]
    ELSE
        LET start == offset(src, ws.cursor) IN
        IF peek(src, ws.cursor) = NoChar THEN
            [token |-> Token("Eof", start, start), cursor |-> ws.cursor,
             previous |-> "Eof"]
        ELSE
            LET r == scan_char(src, consume(src, ws.cursor), peek(src, ws.cursor))
            IN [token |-> Token(r.kind, start,
                                IF r.kind = "Error" THEN start + 1
                                ELSE offset(src, r.cursor)),
                cursor |-> r.cursor, previous |-> r.kind]

\* scan(): the token returned, and the Lexer's fields after the call.
scan(src, i, prev) ==
    LET ws == whitespace(src, i, prev) IN
    IF ws.token # NoToken THEN
        [token |-> ws.token, cursor |-> ws.cursor, previous |-> ws.token.kind]
    ELSE
        LET start == offset(src, ws.cursor) IN
        IF peek(src, ws.cursor) = NoChar THEN
            [token |-> Token("Eof", start, start), cursor |-> ws.cursor,
             previous |-> "Eof"]
        ELSE
            LET r == scan_char(src, consume(src, ws.cursor), peek(src, ws.cursor))
            IN [token |-> Token(r.kind, start, offset(src, r.cursor)),
                cursor |-> r.cursor, previous |-> r.kind]

\* A variant of Iterator::next without the test for Eof.
lexer_next_without_end(src, i, prev) ==
    LET r == scan(src, i, prev)
    IN [some |-> TRUE, token |-> r.token, cursor |-> r.cursor, previous |-> r.previous]

\* A variant of Iterator::next that also ends the iteration after an Error
\* token, as Scanner::next of src/src/lexer/scanner.rs does.
lexer_next_stop_on_error(src, i, prev) ==
    IF prev # "Eof" /\ ~(prev = "Error" /\ i > 0)
    THEN LET r == scan(src, i, prev)
         IN [some |-> TRUE, token |-> r.token, cursor |-> r.cursor,
             previous |-> r.previous]
    ELSE [some |-> FALSE, token |-> NoToken, cursor |-> i, previous |-> prev]

\* Iterator::next of the Lexer: Some(token) with the fields after the call,
\* or None with the fields unchanged.
lexer_next(src, i, prev) ==
    IF prev # "Eof"
    THEN LET r == scan(src, i, prev)
         IN [some |-> TRUE, token |-> r.token, cursor |-> r.cursor,
             previous |-> r.previous]
    ELSE [some |-> FALSE, token |-> NoToken, cursor |-> i, previous |-> prev]

-----------------------------------------------------------------------------
(* AST constructors, src/src/ast/expr/mod.rs. *)

LiteralInteger(digits) == [node |-> "Integer", digits |-> digits]

LiteralBool(b) == [node |-> "Bool", bool |-> b]

\* A panic (panic!, unwrap on None or Err, unimplemented!) that aborts the parse.
Panic(msg) == [node |-> "Panic", msg |-> msg]

index(base, idx) == [node |-> "Index", base |-> base, index |-> idx]

call(func, params) == [node |-> "Call", func |-> func, params |-> params]

prefix_operator(op, expr) ==
    IF op = "Minus" THEN [node |-> "Negation", op |-> "Negation", expr |-> expr]
    ELSE IF op = "Bang" THEN [node |-> "Negation", op |-> "LogicalNot", expr |-> expr]
    ELSE IF op = "Tilde" THEN [node |-> "Negation", op |-> "BitwiseNot", expr |-> expr]
    ELSE IF op = "And" THEN [node |-> "AddressOf", expr |-> expr]
    ELSE IF op = "Star" THEN [node |-> "Dereference", expr |-> expr]
    ELSE Panic("unreachable")

ArithmeticLogicalOperator(op) ==
    CASE op = "Plus" -> "Plus" [] op = "Minus" -> "Minus"
      [] op = "Star" -> "Multiply" [] op = "Slash" -> "Divide"
      [] op = "Percent" -> "Modulo" [] op = "And" -> "And"
      [] op = "Or" -> "Or" [] op = "Caret" -> "Xor"
      [] op = "Shl" -> "Shl" [] op = "Shr" -> "Shr"

ComparisonOperator(op) ==
    CASE op = "EqEq" -> "Eq" [] op = "BangEq" -> "NotEq"
      [] op = "Lt" -> "Lt" [] op = "LtEq" -> "LtEq"
      [] op = "Gt" -> "Gt" [] op = "GtEq" -> "GtEq"

BooleanOperator(op) == CASE op = "AndAnd" -> "And" [] op = "OrOr" -> "Or"

CompoundAssignmentOperator(op) ==
    CASE op = "PlusEq" -> "Plus" [] op = "MinusEq" -> "Minus"
      [] op = "StarEq" -> "Multiply" [] op = "SlashEq" -> "Divide"
      [] op = "PercentEq" -> "Modulo" [] op = "ShlEq" -> "Shl"
      [] op = "ShrEq" -> "Shr" [] op = "AndEq" -> "And"
      [] op = "OrEq" -> "Or" [] op = "CaretEq" -> "Xor"

ArithmeticLogicalTokens ==
    {"Plus", "Minus", "Star", "Slash", "Percent", "And", "Or", "Caret", "Shl", "Shr"}

ComparisonTokens == {"EqEq", "BangEq", "Lt", "LtEq", "Gt", "GtEq"}

BooleanTokens == {"AndAnd", "OrOr"}

CompoundAssignmentTokens ==
    {"PlusEq", "MinusEq", "StarEq", "SlashEq", "PercentEq", "ShlEq", "ShrEq",
     "AndEq", "OrEq", "CaretEq"}

infix_operator(lhs, op, rhs) ==
    IF op \in ArithmeticLogicalTokens THEN
        [node |-> "ArithmeticLogical", op |-> ArithmeticLogicalOperator(op),
         lhs |-> lhs, rhs |-> rhs]
    ELSE IF op \in ComparisonTokens THEN
        [node |-> "Comparison", op |-> ComparisonOperator(op), lhs |-> lhs, rhs |-> rhs]
    ELSE IF op = "Eq" THEN [node |-> "Assignment", lhs |-> lhs, rhs |-> rhs]
    ELSE IF op \in BooleanTokens THEN
        [node |-> "Boolean", op |-> BooleanOperator(op), lhs |-> lhs, rhs |-> rhs]
    ELSE IF op \in CompoundAssignmentTokens THEN
        [node |-> "CompoundAssignment", op |-> CompoundAssignmentOperator(op),
         lhs |-> lhs, rhs |-> rhs]
    ELSE Panic("unreachable")

-----------------------------------------------------------------------------
(* Parser, src/src/parser/mod.rs and src/src/parser/expr.rs.               *)
(* The Peekable<Lexer> is the sequence of tokens the Lexer yields; p is    *)
(* the index of the next token of it.                                      *)

RECURSIVE lex_all(_, _, _, _)
lex_all(src, i, prev, acc) ==
    LET r == lexer_next(src, i, prev) IN
    IF r.some THEN lex_all(src, r.cursor, r.previous, Append(acc, r.token)) ELSE acc

\* Every token of Lexer::new(src), up to the iterator's end.
Tokens(src) == lex_all(src, 0, "Error", <<>>)

\* Parser::peek: the kind of the next token, Eof once the Lexer is exhausted.
parser_peek(toks, p) == IF p <= Len(toks) THEN toks[p].kind ELSE "Eof"

\* str::is_char_boundary
is_char_boundary(src, b) == \E k \in 0..Len(src) : ByteOffset(src, k) = b

\* Parser::text: the characters of the byte range, when &source[span] does
\* not panic.
text(src, token) ==
    LET first == CHOOSE k \in 0..Len(src) : ByteOffset(src, k) = token.start
        last == CHOOSE k \in 0..Len(src) : ByteOffset(src, k) = token.end
    IN [j \in 1..(last - first) |-> src[first + j]]

text_panics(src, token) ==
    \/ token.start > token.end
    \/ ~is_char_boundary(src, token.start)
    \/ ~is_char_boundary(src, token.end)

\* The binding powers: <<left, right>>, <<>> for None.
NoPower == <<>>

prefix_binding_power(op) == 23

postfix_binding_power(op) ==
    IF op \in {"LeftBracket", "LeftParen"} THEN <<25>> ELSE NoPower

infix_binding_power(op) ==
    IF op \in {"Star", "Slash", "Percent"} THEN <<19, 20>>
    ELSE IF op \in {"Plus", "Minus"} THEN <<17, 18>>
    ELSE IF op \in {"Shl", "Shr"} THEN <<15, 16>>
    ELSE IF op = "And" THEN <<13, 14>>
    ELSE IF op = "Caret" THEN <<11, 12>>
    ELSE IF op = "Or" THEN <<9, 10>>
    ELSE IF op \in ComparisonTokens THEN <<7, 8>>
    ELSE IF op = "AndAnd" THEN <<5, 6>>
    ELSE IF op = "OrOr" THEN <<3, 4>>
    ELSE IF op \in {"Eq"} \cup CompoundAssignmentTokens THEN <<2, 1>>
    ELSE NoPower

U64_MAX == <<"1", "8", "4", "4", "6", "7", "4", "4", "0", "7",
             "3", "7", "0", "9", "5", "5", "1", "6", "1", "5">>

DigitValue(c) ==
    CASE c = "0" -> 0 [] c = "1" -> 1 [] c = "2" -> 2 [] c = "3" -> 3 [] c = "4" -> 4
      [] c = "5" -> 5 [] c = "6" -> 6 [] c = "7" -> 7 [] c = "8" -> 8 [] c = "9" -> 9

RECURSIVE StripZeros(_)
\* The decimal digits without leading zeros (the value of the text).
StripZeros(d) ==
    IF Len(d) > 1 /\ d[1] = "0" THEN StripZeros(Tail(d)) ELSE d

RECURSIVE DigitsGreater(_, _)
\* a > b for digit sequences of equal length.
DigitsGreater(a, b) ==
    IF Len(a) = 0 THEN FALSE
    ELSE IF DigitValue(a[1]) # DigitValue(b[1]) THEN DigitValue(a[1]) > DigitValue(b[1])
    ELSE DigitsGreater(Tail(a), Tail(b))

\* The value of the text exceeds u64::MAX.
Overflows(d) ==
    LET v == StripZeros(d)
    IN Len(v) > Len(U64_MAX) \/ (Len(v) = Len(U64_MAX) /\ DigitsGreater(v, U64_MAX))

\* parse_number: str::parse::<u64>() and unwrap.  The Integer's value is
\* kept as its decimal digits.
parse_number(src) ==
    IF Len(src) = 0 \/ (\E k \in 1..Len(src) : ~is_ascii_digit(src[k])) \/ Overflows(src)
    THEN Panic("unwrap on Err")
    ELSE LiteralInteger(StripZeros(src))

\* The result of a parsing procedure: the expression (or the panic) and the
\* index of the next token.
Parsed(expr, p) == [ok |-> TRUE, expr |-> expr, pos |-> p]

Aborted(msg, p) == [ok |-> FALSE, expr |-> Panic(msg), pos |-> p]

\* Parser::expect is not among the sources; it is taken to consume the
\* expected token and to abort on any other, as Parser::eat does.
expect(toks, p, token) ==
    IF parser_peek(toks, p) = token
    THEN [ok |-> TRUE, pos |-> p + 1]
    ELSE [ok |-> FALSE, pos |-> p]

PrefixTokens == {"Minus", "Bang", "Tilde", "Star", "And"}

\* The tokens the loop of expression_ accepts as op.
LoopTokens ==
    ArithmeticLogicalTokens \cup ComparisonTokens \cup BooleanTokens
    \cup {"Eq"} \cup CompoundAssignmentTokens
    \cup {"LeftBracket", "LeftParen", "RightParen", "RightBracket"}

RECURSIVE expression_(_, _, _, _)
RECURSIVE expression_loop(_, _, _, _, _)
RECURSIVE call_params(_, _, _, _)

\* The while loop of the parameter list of a call list.
call_params(toks, src, p, params) ==
    IF parser_peek(toks, p) \in {"RightParen", "Eof"} THEN Parsed(params, p)
    ELSE
        LET param == expression_(toks, src, p, 0) IN
        IF ~param.ok THEN param
        ELSE IF parser_peek(toks, param.pos) # "RightParen" THEN
            LET e == expect(toks, param.pos, "Comma") IN
            IF ~e.ok THEN Aborted("unexpected token", e.pos)
            ELSE call_params(toks, src, e.pos, Append(params, param.expr))
        ELSE call_params(toks, src, param.pos, Append(params, param.expr))

\* The loop of expression_ with the accumulated lhs.
expression_loop(toks, src, p, mbp, lhs) ==
    LET op == parser_peek(toks, p) IN
    IF op = "Semicolon" THEN Parsed(lhs, p)
    ELSE IF op \notin LoopTokens THEN Aborted(op, p)
    ELSE IF postfix_binding_power(op) # NoPower THEN
        IF postfix_binding_power(op)[1] < mbp THEN Parsed(lhs, p)
        ELSE IF op = "LeftParen" THEN
            LET ps == call_params(toks, src, p + 1, <<>>) IN
            IF ~ps.ok THEN ps
            ELSE LET e == expect(toks, ps.pos, "RightParen") IN
                 IF ~e.ok THEN Aborted("unexpected token", e.pos)
                 ELSE expression_loop(toks, src, e.pos, mbp, call(lhs, ps.expr))
        ELSE
            LET rhs == expression_(toks, src, p + 1, 0) IN
            IF ~rhs.ok THEN rhs
            ELSE LET e == expect(toks, rhs.pos, "RightBracket") IN
                 IF ~e.ok THEN Aborted("unexpected token", e.pos)
                 ELSE expression_loop(toks, src, e.pos, mbp, index(lhs, rhs.expr))
    ELSE IF infix_binding_power(op) # NoPower THEN
        IF infix_binding_power(op)[1] < mbp THEN Parsed(lhs, p)
        ELSE
            LET rhs == expression_(toks, src, p + 1, infix_binding_power(op)[2]) IN
            IF ~rhs.ok THEN rhs
            ELSE expression_loop(toks, src, rhs.pos, mbp,
                                 infix_operator(lhs, op, rhs.expr))
    ELSE Parsed(lhs, p)

\* Parser::expression_(mbp) with the next token at index p.
expression_(toks, src, p, mbp) ==
    IF p > Len(toks) THEN Aborted("unwrap on None", p)
    ELSE IF text_panics(src, toks[p]) THEN Aborted("byte index out of range", p)
    ELSE
        LET kind == toks[p].kind
            primary ==
                IF kind = "Number" THEN
                    LET n == parse_number(text(src, toks[p])) IN
                    [ok |-> n.node # "Panic", expr |-> n, pos |-> p + 1]
                ELSE IF kind \in {"True", "False"} THEN
                    Parsed(LiteralBool(kind = "True"), p + 1)
                ELSE IF kind = "LeftParen" THEN
                    LET expr == expression_(toks, src, p + 1, 0) IN
                    IF ~expr.ok THEN expr
                    ELSE LET e == expect(toks, expr.pos, "RightParen") IN
                         IF ~e.ok THEN Aborted("unexpected token", e.pos)
                         ELSE Parsed(expr.expr, e.pos)
                ELSE IF kind \in PrefixTokens THEN
                    LET rhs == expression_(toks, src, p + 1, prefix_binding_power(kind)) IN
                    IF ~rhs.ok THEN rhs
                    ELSE Parsed(prefix_operator(kind, rhs.expr), rhs.pos)
                ELSE Aborted("not implemented", p + 1)
        IN IF ~primary.ok THEN primary
           ELSE expression_loop(toks, src, primary.pos, mbp, primary.expr)

\* Parser::new(src).expression(): the expression, or the panic that aborts.
expression(src) == expression_(Tokens(src), src, 1, 0).expr

-----------------------------------------------------------------------------
(* Items and statements, src/src/parser/mod.rs and src/src/parser/stmt.rs. *)
(* Every procedure returns Parsed(value, p) or Aborted(message, p).        *)

\* Ident::from(token): an identifier is the span of its token.
Ident(token) == [node |-> "Ident", start |-> token.start, end |-> token.end]

\* Option::None of Function::ret and of Parser::item.
None == [node |-> "None"]

FunctionArg(argName, typ) == [node |-> "FunctionArg", name |-> argName, typ |-> typ]

Function(fnName, fnArgs, ret, stmts) ==
    [node |-> "Function", name |-> fnName, args |-> fnArgs, ret |-> ret,
     block |-> stmts]

ItemFunction(f) == [node |-> "Item", function |-> f]

StatementItem(it) == [node |-> "StatementItem", item |-> it]

StatementVariable(id, expr, mutable) ==
    [node |-> "Variable", ident |-> id, expr |-> expr, mutable |-> mutable]

StatementExpression(expr) == [node |-> "StatementExpression", expr |-> expr]

\* Parser::at
at(toks, p, token) == parser_peek(toks, p) = token

\* Parser::eof
eof(toks, p) == at(toks, p, "Eof")

\* Parser::eat: the expected token is consumed, any other one panics.
eat(toks, p, token) ==
    IF parser_peek(toks, p) = token
    THEN [ok |-> TRUE, pos |-> p + 1]
    ELSE [ok |-> FALSE, pos |-> p]

\* A variant of Parser::ident that peeks at the token and does not take it.
ident_without_next(toks, p) ==
    IF p <= Len(toks) /\ toks[p].kind = "Identifier"
    THEN Parsed(Ident(toks[p]), p)
    ELSE Aborted("expected identifier", p)

\* Parser::ident
ident(toks, p) ==
    IF p <= Len(toks) /\ toks[p].kind = "Identifier"
    THEN Parsed(Ident(toks[p]), p + 1)
    ELSE Aborted("expected identifier", p + 1)

RECURSIVE function_args(_, _, _)
RECURSIVE function(_, _, _)
RECURSIVE block_loop(_, _, _, _)
RECURSIVE block(_, _, _)
RECURSIVE statement(_, _, _)
RECURSIVE item(_, _, _)

\* The while loop of Parser::function over the arguments.
function_args(toks, p, fnArgs) ==
    IF at(toks, p, "RightParen") \/ eof(toks, p) THEN Parsed(fnArgs, p)
    ELSE
        LET argName == ident(toks, p)
            colon == eat(toks, argName.pos, "Colon")
            typ == ident(toks, colon.pos)
            comma == eat(toks, typ.pos, "Comma")
        IN
        IF ~argName.ok THEN argName
        ELSE IF ~colon.ok THEN Aborted("unexpected token", colon.pos)
        ELSE IF ~typ.ok THEN typ
        ELSE IF ~at(toks, typ.pos, "RightParen") /\ ~comma.ok
        THEN Aborted("unexpected token", comma.pos)
        ELSE function_args(toks,
                           IF at(toks, typ.pos, "RightParen") THEN typ.pos ELSE comma.pos,
                           Append(fnArgs, FunctionArg(argName.expr, typ.expr)))

\* The end of Parser::function: stmts is what self.block() returned.
function_block(fnName, fnArgs, ret, stmts) ==
    IF ~stmts.ok THEN stmts
    ELSE Parsed(Function(fnName, fnArgs, ret, stmts.expr), stmts.pos)

\* Parser::function after the arguments: fnArgs is what the loop returned.
function_ret(toks, src, fnName, fnArgs) ==
    LET closed == eat(toks, fnArgs.pos, "RightParen")
        ret == IF at(toks, closed.pos, "Colon")
               THEN ident(toks, closed.pos + 1)
               ELSE Parsed(None, closed.pos)
        brace == eat(toks, ret.pos, "LeftBrace")
    IN
    IF ~fnArgs.ok THEN fnArgs
    ELSE IF ~closed.ok THEN Aborted("unexpected token", closed.pos)
    ELSE IF ~ret.ok THEN ret
    ELSE IF ~brace.ok THEN Aborted("unexpected token", brace.pos)
    ELSE function_block(fnName, fnArgs.expr, ret.expr, block(toks, src, brace.pos))

\* Parser::function
function(toks, src, p) ==
    LET keyword == eat(toks, p, "Fn")
        fnName == ident(toks, keyword.pos)
        opened == eat(toks, fnName.pos, "LeftParen")
    IN
    IF ~keyword.ok THEN Aborted("unexpected token", keyword.pos)
    ELSE IF ~fnName.ok THEN fnName
    ELSE IF ~opened.ok THEN Aborted("unexpected token", opened.pos)
    ELSE function_ret(toks, src, fnName.expr, function_args(toks, opened.pos, <<>>))

\* Parser::block is not among the sources.  It is taken to parse
\* statements up to the closing brace, each terminated by a Semicolon that
\* the last one may leave out, and then the closing brace.

\* One turn of the loop of Parser::block: st is what self.statement()
\* returned.
block_statement(toks, src, stmts, st) ==
    LET semi == eat(toks, st.pos, "Semicolon") IN
    IF ~st.ok THEN st
    ELSE IF ~at(toks, st.pos, "RightBrace") /\ ~semi.ok
    THEN Aborted("unexpected token", semi.pos)
    ELSE block_loop(toks, src,
                    IF at(toks, st.pos, "RightBrace") THEN st.pos ELSE semi.pos,
                    Append(stmts, st.expr))

\* The loop of Parser::block over the statements.
block_loop(toks, src, p, stmts) ==
    IF at(toks, p, "RightBrace") \/ eof(toks, p) THEN Parsed(stmts, p)
    ELSE block_statement(toks, src, stmts, statement(toks, src, p))

\* The end of Parser::block: stmts is what the loop returned.
block_close(toks, stmts) ==
    LET closed == eat(toks, stmts.pos, "RightBrace") IN
    IF ~stmts.ok THEN stmts
    ELSE IF ~closed.ok THEN Aborted("unexpected token", closed.pos)
    ELSE Parsed(stmts.expr, closed.pos)

\* Parser::block, called after the opening brace.
block(toks, src, p) == block_close(toks, block_loop(toks, src, p, <<>>))

\* Statement::Variable of Parser::statement: expr is what
\* self.expression() returned.
statement_variable(id, mutable, expr) ==
    IF ~expr.ok THEN expr
    ELSE Parsed(StatementVariable(id, expr.expr, mutable), expr.pos)

\* Statement::Expression of Parser::statement: expr is what
\* self.expression() returned.
statement_expression(expr) ==
    IF ~expr.ok THEN expr
    ELSE Parsed(StatementExpression(expr.expr), expr.pos)

\* Statement::Item of Parser::statement: it is what self.item() returned,
\* Some(item) at the keyword fn.
statement_item(it) ==
    IF ~it.ok THEN it
    ELSE Parsed(StatementItem(it.expr), it.pos)

\* Parser::statement
statement(toks, src, p) ==
    IF at(toks, p, "Let") \/ at(toks, p, "Mut") THEN
        LET id == ident(toks, p + 1)
            eq == eat(toks, id.pos, "Eq")
        IN
        IF ~id.ok THEN id
        ELSE IF ~eq.ok THEN Aborted("unexpected token", eq.pos)
        ELSE statement_variable(id.expr, toks[p].kind = "Mut",
                                expression_(toks, src, eq.pos, 0))
    ELSE IF at(toks, p, "Fn") THEN statement_item(item(toks, src, p))
    ELSE statement_expression(expression_(toks, src, p, 0))

\* Some(Item::Function(..)) of Parser::item: f is what self.function()
\* returned.
item_function(f) ==
    IF ~f.ok THEN f ELSE Parsed(ItemFunction(f.expr), f.pos)

\* Parser::item
item(toks, src, p) ==
    IF at(toks, p, "Fn") THEN item_function(function(toks, src, p))
    ELSE Parsed(None, p)

\* The Vec<Item> Parser::parse returns.
Items(list) == [node |-> "Items", list |-> list]

RECURSIVE parse_loop(_, _, _, _)

\* One turn of the loop of Parser::parse: it is what self.item() returned.
parse_item(toks, src, list, it) ==
    LET semi == eat(toks, it.pos, "Semicolon") IN
    IF ~it.ok THEN it
    ELSE IF it.expr = None THEN Aborted("expected item", it.pos)
    ELSE IF ~semi.ok THEN Aborted("unexpected token", semi.pos)
    ELSE parse_loop(toks, src, semi.pos, Append(list, it.expr))

\* The while loop of Parser::parse.
parse_loop(toks, src, p, list) ==
    IF eof(toks, p) THEN Parsed(Items(list), p)
    ELSE parse_item(toks, src, list, item(toks, src, p))

\* Parser::new(src).parse(): the items, or the panic that aborts.
parse(src) == parse_loop(Tokens(src), src, 1, <<>>).expr

-----------------------------------------------------------------------------
(* Positions, src/src/diagnostic/span.rs. *)

RECURSIVE as_line_and_column_loop(_, _, _, _, _, _)
\* A variant of the loop whose column counts bytes, not characters.
as_line_and_column_loop_bytes(self, input, k, pos, line, column) ==
    IF k > Len(input) \/ pos >= self THEN <<line, column>>
    ELSE as_line_and_column_loop(self, input, k + 1, pos + len_utf8(input[k]),
                                 IF input[k] = "\n" THEN line + 1 ELSE line,
                                 IF input[k] = "\n" THEN 1 ELSE column + len_utf8(input[k]))

\* The for loop of as_line_and_column from the k-th character of input on,
\* with the locals pos, line and column.
as_line_and_column_loop(self, input, k, pos, line, column) ==
    IF k > Len(input) \/ pos >= self THEN <<line, column>>
    ELSE as_line_and_column_loop(self, input, k + 1, pos + len_utf8(input[k]),
                                 IF input[k] = "\n" THEN line + 1 ELSE line,
                                 IF input[k] = "\n" THEN 1 ELSE column + 1)

\* SourceLocation(self).as_line_and_column(input)
as_line_and_column(self, input) == as_line_and_column_loop(self, input, 1, 0, 1, 1)

-----------------------------------------------------------------------------
(* Source texts of 4 GiB and more.  Such a text is a run of blanks, counted *)
(* in blocks of BlockBytes bytes, followed by a short text: the blanks are  *)
(* skipped by the first call of whitespace() and move every offset.         *)

\* The bytes of one block of blanks.
BlockBytes == 2^16

\* u32::MAX + 1 bytes, in blocks.
U32Blocks == 2^16

\* The byte length of the text exceeds u32::MAX: the condition the
\* debug_assert of Lexer::new tests.
TooLarge(blocks) == blocks >= U32Blocks

\* A usize offset as u32, for the offset lo bytes after the blanks.
as_u32(blocks, lo) == (blocks % U32Blocks) * BlockBytes + lo

\* The token the Lexer yields for a text after blocks of blanks: its offsets
\* are those of Lexer::offset.
Located(token, blocks) ==
    [token EXCEPT !.start = as_u32(blocks, @), !.end = as_u32(blocks, @)]

\* as_line_and_column over the blanks and then the text: every offset into
\* the blanks is on line 1.
padded_line_and_column(self, blocks, input) ==
    IF TooLarge(blocks) \/ self <= blocks * BlockBytes THEN <<1, 1 + self>>
    ELSE as_line_and_column_loop(self, input, 1, blocks * BlockBytes,
                                 1, 1 + blocks * BlockBytes)

\* What Parser::text slices for the tokens of a text after blocks of
\* blanks: the text itself, or blanks when the offsets were truncated.
sliced_source(blocks, src) ==
    IF TooLarge(blocks) THEN [k \in 1..ByteOffset(src, Len(src)) |-> " "] ELSE src

\* The Ident of a token of a text after blocks of blanks.
located_ident(id, blocks) ==
    IF id = None THEN None
    ELSE [id EXCEPT !.start = as_u32(blocks, @), !.end = as_u32(blocks, @)]

RECURSIVE located_function(_, _)
RECURSIVE located_statement(_, _)

\* A Function with the Idents of such tokens.
located_function(f, blocks) ==
    Function(located_ident(f.name, blocks),
             [k \in DOMAIN f.args |->
                 FunctionArg(located_ident(f.args[k].name, blocks),
                             located_ident(f.args[k].typ, blocks))],
             located_ident(f.ret, blocks),
             [k \in DOMAIN f.block |-> located_statement(f.block[k], blocks)])

located_statement(st, blocks) ==
    IF st.node = "Variable"
    THEN StatementVariable(located_ident(st.ident, blocks), st.expr, st.mutable)
    ELSE IF st.node = "StatementItem"
    THEN StatementItem(ItemFunction(located_function(st.item.function, blocks)))
    ELSE st

\* Parser::new and Parser::expression over the text after blocks of blanks:
\* the expression or the panic, and the index of the next token.
padded_expression_(blocks, src) ==
    expression_(Tokens(src), sliced_source(blocks, src), 1, 0)

padded_expression(blocks, src) == padded_expression_(blocks, src).expr

\* The items of such a text: r is what the loop of Parser::parse returned.
located_items(blocks, r) ==
    IF r.ok
    THEN Items([k \in DOMAIN r.expr.list |->
                   ItemFunction(located_function(r.expr.list[k].function, blocks))])
    ELSE r.expr

\* Parser::new and the loop of Parser::parse over the text after blocks of
\* blanks.
padded_parse_loop(blocks, src) ==
    parse_loop(Tokens(src), sliced_source(blocks, src), 1, <<>>)

\* Parser::new and Parser::parse over the text after blocks of blanks.
padded_parse(blocks, src) == located_items(blocks, padded_parse_loop(blocks, src))

-----------------------------------------------------------------------------
(* The state machine: a Lexer over source that is pulled token by token. *)

\* The characters short source texts are drawn from: an identifier letter,
\* newline, blank, the comment characters, a quote, an operator character
\* and a character that starts no token.
Alphabet == {"x", "\n", " ", "/", "*", "\"", "+", "@"}

ShortSources == UNION {[1..n -> Alphabet] : n \in 0..MaxLen}

\* Source texts with the characters Alphabet leaves out: each kind of the
\* expression-terminating set before a newline, explicit semicolons, tabs
\* and carriage returns, and characters of more than one byte.
SampleSources ==
    {<<")", "\n">>, <<"}", "\n">>, <<"]", "\n">>, <<"1", "2", "\n">>,
     <<"\"", "s", "\"", "\n">>, <<"+", "+", "\n">>, <<"-", "-", "\n">>,
     W_break \o <<"\n">>, W_continue \o <<"\n">>, W_return \o <<"\n">>,
     W_let \o <<"\n">>, <<"(", "\n">>, <<"-", "\n">>, <<",", "\n", "x">>,
     <<";", "\n">>, <<"x", ";", "\n">>, <<"x", "\n", ";">>, <<"x", "\n", ";", "\n", "x">>,
     <<"x", "\t", "\r", "\n", "\t", "y">>, <<"x", "\r", "y">>,
     <<"é", "\n">>, <<"x", "é", "\n", "1">>, <<"€">>, <<"€", "x", "€", "\n">>,
     <<"\"", "€", "\"", "\n", "@">>, <<"/", "/", "é", "\n", "x">>,
     <<"x", "\n", "/", "*", "€", "*", "/", "\n", "y">>}

\* parsed and items before the Parser has run.
NotParsed == [node |-> "<not parsed>"]

\* position before a token has been printed.
NoPosition == <<0, 0>>

\* Lexer::new(source)
LexerNew(src) ==
    /\ source = src
    /\ cursor = 0
    /\ previous = "Error"
    /\ emitted = <<>>
    /\ ended = 0
    /\ parsed = NotParsed
    /\ items = NotParsed
    /\ position = NoPosition
    /\ padding = 0
    /\ constructed = TRUE
    /\ consumed = 0

Init == \E src \in ShortSources \cup SampleSources : LexerNew(src)

\* The reserved words, with the TokenKind of each (src/src/lexer/token.rs).
ReservedWord(kind) ==
    CASE kind = "Break" -> W_break [] kind = "Const" -> W_const
      [] kind = "Continue" -> W_continue [] kind = "Else" -> W_else
      [] kind = "Enum" -> W_enum [] kind = "False" -> W_false
      [] kind = "For" -> W_for [] kind = "Fn" -> W_fn
      [] kind = "If" -> W_if [] kind = "Let" -> W_let
      [] kind = "Mut" -> W_mut [] kind = "Pub" -> W_pub
      [] kind = "Return" -> W_return [] kind = "True" -> W_true
      [] kind = "While" -> W_while

KeywordKinds ==
    {"Break", "Const", "Continue", "Else", "Enum", "False", "For", "Fn", "If",
     "Let", "Mut", "Pub", "Return", "True", "While"}

ReservedWords == {ReservedWord(k) : k \in KeywordKinds}

\* The letters short lowercase words are drawn from.
KwLetters == {"f", "n", "i", "e", "l", "s"}

\* What is appended to a reserved word: a lowercase letter, an uppercase
\* letter, a digit, an underscore and a non-ASCII letter.
KwSuffixes == {"s", "X", "1", "_", "é"}

\* Identifier runs: every short word over KwLetters, every reserved word,
\* every reserved word without its last letter and every reserved word with
\* one more identifier character, before or after it.
KeywordSources ==
    (UNION {[1..n -> KwLetters] : n \in 1..MaxWordLen})
    \cup ReservedWords
    \cup {SubSeq(w, 1, Len(w) - 1) : w \in ReservedWords}
    \cup {w \o <<c>> : w \in ReservedWords, c \in KwSuffixes}
    \cup {<<c>> \o w : w \in ReservedWords, c \in KwSuffixes \ {"1"}}

InitKeywords == \E src \in KeywordSources : LexerNew(src)

\* The text of each infix operator token.
InfixText(op) ==
    CASE op = "Plus" -> <<"+">> [] op = "Minus" -> <<"-">>
      [] op = "Star" -> <<"*">> [] op = "Slash" -> <<"/">>
      [] op = "Percent" -> <<"%">> [] op = "And" -> <<"&">>
      [] op = "Or" -> <<"|">> [] op = "Caret" -> <<"^">>
      [] op = "Shl" -> <<"<", "<">> [] op = "Shr" -> <<">", ">">>
      [] op = "EqEq" -> <<"=", "=">> [] op = "BangEq" -> <<"!", "=">>
      [] op = "Lt" -> <<"<">> [] op = "LtEq" -> <<"<", "=">>
      [] op = "Gt" -> <<">">> [] op = "GtEq" -> <<">", "=">>
      [] op = "AndAnd" -> <<"&", "&">> [] op = "OrOr" -> <<"|", "|">>
      [] op = "Eq" -> <<"=">>
      [] op = "PlusEq" -> <<"+", "=">> [] op = "MinusEq" -> <<"-", "=">>
      [] op = "StarEq" -> <<"*", "=">> [] op = "SlashEq" -> <<"/", "=">>
      [] op = "PercentEq" -> <<"%", "=">> [] op = "ShlEq" -> <<"<", "<", "=">>
      [] op = "ShrEq" -> <<">", ">", "=">> [] op = "AndEq" -> <<"&", "=">>
      [] op = "OrEq" -> <<"|", "=">> [] op = "CaretEq" -> <<"^", "=">>

InfixTokens ==
    ArithmeticLogicalTokens \cup ComparisonTokens \cup BooleanTokens
    \cup {"Eq"} \cup CompoundAssignmentTokens

\* The operands of an expression x op1 y op2 z: numbers or identifiers.
OperandTriples == {<<"1", "2", "3">>, <<"a", "b", "c">>}

\* What follows the expression: the end of input, an explicit semicolon or
\* a newline.
Terminators == {<<>>, <<";">>, <<"\n">>}

ExpressionSources ==
    {<<xs[1]>> \o InfixText(op1) \o <<xs[2]>> \o InfixText(op2) \o <<xs[3]>> \o t :
        xs \in OperandTriples, op1 \in InfixTokens, op2 \in InfixTokens,
        t \in Terminators}

InitExpressions == \E src \in ExpressionSources : LexerNew(src)

\* Decimal numbers around u64::MAX, with and without leading zeros.
NumberTexts ==
    {<<"0">>,
     <<"4", "2">>,
     <<"0", "0", "0", "4", "2">>,
     <<"1", "8", "4", "4", "6", "7", "4", "4", "0", "7", "3", "7", "0", "9", "5", "5", "1", "6", "1", "5">>,
     <<"1", "8", "4", "4", "6", "7", "4", "4", "0", "7", "3", "7", "0", "9", "5", "5", "1", "6", "1", "6">>,
     <<"1", "8", "4", "4", "6", "7", "4", "4", "0", "7", "3", "7", "0", "9", "5", "5", "1", "6", "2", "1">>,
     <<"0", "1", "8", "4", "4", "6", "7", "4", "4", "0", "7", "3", "7", "0", "9", "5", "5", "1", "6", "1", "5">>,
     <<"9", "9", "9", "9", "9", "9", "9", "9", "9", "9", "9", "9", "9", "9", "9", "9", "9", "9", "9", "9">>,
     <<"1", "0", "0", "0", "0", "0", "0", "0", "0", "0", "0", "0", "0", "0", "0", "0", "0", "0", "0", "0", "0">>,
     <<"1", "8", "4", "4", "6", "7", "4", "4", "0", "7", "3", "7", "0", "9", "5", "5", "1", "6", "1", "4">>}

\* A number as the whole expression, before the end of input or a Semicolon.
NumberSources == {n \o t : n \in NumberTexts, t \in {<<>>, <<";">>}}

\* What is called or indexed: an identifier, a number, a parenthesised number.
Callees == {<<"f">>, <<"1">>, <<"(", "1", ")">>}

\* Parameter lists of a call: none, one, two and three parameters, and a
\* trailing comma.
ParamLists ==
    {<<>>, <<"1">>, <<"1", ",", "2">>, <<"2", ",", "1">>, <<"1", ",", "2", ",", "3">>,
     <<"1", ",">>}

\* What follows the call: nothing, an index, another call.
Postfixes == {<<>>, <<"[", "0", "]">>, <<"(", ")">>}

\* Calls and indexes: callee(params) followed by a postfix and a terminator,
\* and callee[0] followed by a call.
PostfixSources ==
    {c \o <<"(">> \o ps \o <<")">> \o px \o t :
        c \in Callees, ps \in ParamLists, px \in Postfixes, t \in {<<>>, <<";">>}}
    \cup {c \o <<"[", "0", "]", "(">> \o ps \o <<")", ";">> :
        c \in Callees, ps \in ParamLists}

\* Function items: well formed ones, and ones with syntax errors.
ItemSources ==
    {<<"f", "n", " ", "a", "d", "d", "(", "a", ":", " ", "i", "3", "2", ",",
            " ", "b", ":", " ", "i", "3", "2", ")", ":", " ", "i", "3", "2",
            " ", "{", " ", "a", " ", "+", " ", "b", " ", "}">>,
     <<"f", "n", " ", "f", "(", ")", "{", "}", "\n">>,
     <<"f", "n", " ", "f", "(", ")", "{", "}">>,
     <<"f", "n", " ", "f", "(", ")", "{", "1", ";", "}", "\n">>,
     <<"f", "n", " ", "f", "(", ")", "{", "1", "}", "\n">>,
     <<"f", "n", " ", "f", "(", "a", ":", "i", "3", "2", ")", "{", "1", ";",
            "2", "\n", "}", "\n">>,
     <<"f", "n", " ", "f", "(", "a", ":", "i", "3", "2", ",", "b", ":", "u",
            "8", ",", ")", ":", "i", "3", "2", "{", "}", "\n">>,
     <<"f", "n", " ", "f", "(", ")", ":", "i", "3", "2", "{", "}", "\n">>,
     <<"f", "n", " ", "f", "(", ")", "{", "l", "e", "t", " ", "x", "=", "1",
            ";", "}", "\n">>,
     <<"f", "n", " ", "f", "(", ")", "{", "m", "u", "t", " ", "y", "=", "2",
            "\n", "}", "\n">>,
     <<"f", "n", " ", "f", "(", ")", "{", "f", "n", " ", "g", "(", "a", ":",
            "b", ")", "{", "}", "\n", "}", "\n">>,
     <<"f", "n", " ", "f", "(", ")", "{", "}", ";", "f", "n", " ", "g", "(",
            ")", "{", "}", ";">>,
     <<"f", "n", " ", "f", "(", ")", "{", "}", "\n", "f", "n", " ", "g", "(",
            ")", "{", "}", "\n">>,
     <<"f", "n", " ", "1", "(", ")", "{", "}", ";", "f", "n", " ", "2", "(",
            ")", "{", "}", ";">>,
     <<"f", "n", " ", "f", "(", "{", "}", ";", "f", "n", " ", "g", "(", ")",
            "{", "}", ";", "f", "n", " ", "h", ")", "{", "}", ";">>,
     <<"f", "n", " ", "f", "(", ")", "{", ")", "}", ";", "f", "n", " ", "g",
            "(", ")", "{", "1", ";", "}", ";", "f", "n", " ", "h", "(", ")",
            "{", "]", "}", ";">>,
     <<"x">>,
     <<"1", ";">>,
     <<"f", "n", " ", "f", "(", "a", ":", "i", "3", "2", ",", "b", ":", "u", "8",
            ")", "{", "}", "\n", "f", "n", " ", "g", "(", ")", "{", "1", ";",
            "}", "\n">>,
     <<"f", "n", " ", "f", "(", "a", ")", "{", "}", "\n">>,
     <<"f", "n", " ", "f", "(", ")", "{", "l", "e", "t", " ", "1", ";", "}",
            "\n">>}

\* Expressions and items with a comment between two tokens, and the same
\* without the comment.
CommentSources ==
    {<<"1", "+", "2", ";">>,
     <<"1", "/", "*", "*", "/", "+", "2", ";">>,
     <<"1", "+", "/", "*", "*", "/", "2", ";">>,
     <<"1", "+", "2", "/", "*", "*", "/", ";">>,
     <<"1", "+", "2", ";", "/", "/", "c">>,
     <<"1", "/", "/", "c", "\n", "+", "2", ";">>,
     <<"1", "+", "/", "/", "c", "\n", "2", ";">>,
     <<"/", "*", "*", "/", "1", "+", "2", ";">>,
     <<"1", "/", "*", "\n", "*", "/", "+", "2", ";">>,
     <<"f", "n", " ", "f", "(", "/", "*", "*", "/", ")", "{", "}", "\n">>,
     <<"f", "n", " ", "f", "(", ")", "{", "}", "/", "/", "c", "\n">>,
     <<"f", "n", " ", "f", "(", ")", "{", "}", "\n", "/", "/", "c">>,
     <<"f", "n", " ", "f", "(", ")", "{", "/", "*", "c", "*", "/", "}",
            "\n">>,
     <<"f", "n", " ", "f", "(", ")", "{", "}", "\n">>,
     <<"(", "1", ")", "/", "*", "*", "/", ";">>,
     <<"(", "1", ")", ";">>,
     <<"1", " ", "+", "2", ";">>,
     <<"1", "+", " ", "2", ";">>}

\* What follows a number that is the whole left-hand side: the tokens that
\* are no operator (closing brackets, a comma, a brace, a colon, another
\* operand, a character that starts no token), with and without a Semicolon
\* after them, the end of input, a Semicolon and a newline.
StopTexts ==
    {<<>>, <<";">>, <<"\n">>, <<")">>, <<"]">>, <<"}">>, <<",">>, <<":">>,
     <<")", ";">>, <<"]", ";">>, <<"}", ";">>, <<",", "2", ";">>, <<" ", "2", ";">>,
     <<" ", "x">>, <<"{">>, <<".">>, <<"@">>, <<"\"", "s", "\"">>, <<" ">> \o W_true}

\* A number, alone, in parentheses, indexed and as a call parameter,
\* followed by each of them.
StopSources ==
    {<<"7">> \o t : t \in StopTexts}
    \cup {<<"(", "7">> \o t : t \in StopTexts}
    \cup {<<"1", "[", "7">> \o t : t \in StopTexts}
    \cup {<<"1", "(", "7">> \o t : t \in StopTexts}

\* The text of each prefix operator token.
PrefixText(op) ==
    CASE op = "Minus" -> <<"-">> [] op = "Bang" -> <<"!">> [] op = "Tilde" -> <<"~">>
      [] op = "Star" -> <<"*">> [] op = "And" -> <<"&">>

\* The operands of the expressions of BindingSources: numbers or identifiers.
OperandQuads == {<<"1", "2", "3", "0">>, <<"x", "y", "z", "i">>}

\* For every prefix operator p and every infix operator o: p x[i], x o y(z)
\* and p x o y, before the end of input and before a Semicolon.
BindingSources ==
    {PrefixText(p) \o <<xs[1], "[", xs[4], "]">> \o t :
        p \in PrefixTokens, xs \in OperandQuads, t \in {<<>>, <<";">>}}
    \cup {<<xs[1]>> \o InfixText(o) \o <<xs[2], "(", xs[3], ")">> \o t :
        o \in InfixTokens, xs \in OperandQuads, t \in {<<>>, <<";">>}}
    \cup {PrefixText(p) \o <<xs[1]>> \o InfixText(o) \o <<xs[2]>> \o t :
        p \in PrefixTokens, o \in InfixTokens, xs \in OperandQuads,
        t \in {<<>>, <<";">>}}

\* Identifiers as operands: alone and added, at the end of input, before
\* a Semicolon and before a newline, and in parentheses.
IdentifierSources ==
    {e \o t : e \in {<<"a">>, <<"a", " ", "+", " ", "b">>, <<"(", "a", ")">>,
                     <<"a", "b", "1", "+", "_", "é">>},
              t \in {<<>>, <<";">>, <<"\n">>}}

\* A token of each kind of the expression-terminating set, and expressions
\* and items that end with one, at the end of input, before blanks and
\* before a newline.
EndSources ==
    {e \o t :
        e \in {<<")">>, <<"}">>, <<"]">>, <<"x">>, <<"\"", "s", "\"">>, <<"1", "2">>,
               W_break, W_continue, W_return, <<"+", "+">>, <<"-", "-">>,
               <<"1", "+", "2">>, <<"(", "1", ")">>, <<"1", "[", "2", "]">>,
               <<"f", "n", " ", "f", "(", ")", "{", "}">>,
               <<"f", "n", " ", "f", "(", ")", "{", "1", "}">>},
        t \in {<<>>, <<" ">>, <<" ", "\t">>, <<"\n">>, <<" ", "\n", " ">>}}

ProgramSources ==
    NumberSources \cup PostfixSources \cup ItemSources \cup CommentSources
    \cup StopSources \cup BindingSources \cup IdentifierSources \cup EndSources

InitPrograms == \E src \in ProgramSources : LexerNew(src)

\* The short texts that follow the blanks of a large source text.
LargeTexts ==
    {<<"x">>,
     <<"1", "2", ";">>,
     <<"x", "\n", "y">>,
     <<"f", "n", " ", "f", "(", ")", "{", "}", "\n">>,
     <<"é", "\n", "1">>,
     <<"1", "+", "2", ";">>,
     <<"\"", "s", "\"">>,
     <<"@">>}

\* The blocks of blanks before the text: none, one, and the fewest that
\* make the text too large, alone and with one more.
Paddings == {0, 1, U32Blocks, U32Blocks + 1}

\* Lexer::new over blocks of blanks and src: a build with debug assertions
\* panics when the text is too large (built is FALSE), one without them
\* returns the Lexer.
LexerNewPadded(src, blocks, built) ==
    /\ source = src
    /\ cursor = 0
    /\ previous = "Error"
    /\ emitted = <<>>
    /\ ended = 0
    /\ parsed = NotParsed
    /\ items = NotParsed
    /\ position = NoPosition
    /\ padding = blocks
    /\ constructed = built
    /\ consumed = 0

InitLarge ==
    \E src \in LargeTexts, blocks \in Paddings, built \in BOOLEAN :
        /\ built \/ TooLarge(blocks)
        /\ LexerNewPadded(src, blocks, built)

\* The characters of the texts whose positions are computed: a letter, a
\* newline, and letters of two and of three bytes.
PositionAlphabet == {"x", "\n", "é", "€"}

PositionSources == UNION {[1..n -> PositionAlphabet] : n \in 0..MaxLen}

InitPositions == \E src \in PositionSources : LexerNew(src)

\* The characters of the texts of literals, comments and unrecognized
\* characters: a quote, the comment characters, a newline, a letter of two
\* bytes and a character of three bytes that starts no token.
LiteralAlphabet == {"\"", "/", "*", "\n", "é", "€"}

\* Texts with the characters LiteralAlphabet leaves out: blanks inside
\* comments and strings, and unrecognized characters of one byte.
LiteralSamples ==
    {<<"/", "*", " ", "*">>, <<"/", "*", " ", "*", "/", " ", "x">>,
     <<"\"", "a", " ", "\n", "b", "\"", "\"", "c">>,
     <<"@">>, <<"#", "$", "x", "?", "\\", "1", "@">>, <<"x", " ", "€", "\n", "@", "é">>,
     <<"1", "-", "-", "2">>, <<"/", "*", "/", "*", "/">>,
     <<"x", "\n", "/", "*", "/", " ", "*", "*", "/", "/", "*", "*">>}

\* The tokens of the operators of one to three characters, and the text
\* of each.
LexedOperators == InfixTokens \cup {"PlusPlus", "MinusMinus", "Bang"}

OperatorText(op) ==
    IF op = "PlusPlus" THEN <<"+", "+">>
    ELSE IF op = "MinusMinus" THEN <<"-", "-">>
    ELSE IF op = "Bang" THEN <<"!">>
    ELSE InfixText(op)

\* Each operator on its own, between two numbers and before each other
\* operator, without and with a blank between the two.
OperatorSources ==
    {OperatorText(op) : op \in LexedOperators}
    \cup {<<"1">> \o OperatorText(op) \o <<"2">> : op \in LexedOperators}
    \cup {OperatorText(op1) \o OperatorText(op2) : op1 \in LexedOperators, op2 \in LexedOperators}
    \cup {OperatorText(op1) \o <<" ">> \o OperatorText(op2) :
             op1 \in LexedOperators, op2 \in LexedOperators}

LiteralSources ==
    (UNION {[1..n -> LiteralAlphabet] : n \in 0..MaxLen}) \cup LiteralSamples
    \cup OperatorSources

InitLiterals == \E src \in LiteralSources : LexerNew(src)

\* One pull of the Lexer's iterator, while the token loop runs: up to its
\* end and, at most MaxEndedPulls times, past it.  The body of the loop of
\* main computes the line and column of the start of the token.
LexerNext ==
    LET r == lexer_next(source, cursor, previous)
        token == Located(r.token, padding)
    IN
    /\ constructed
    /\ parsed = NotParsed
    /\ items = NotParsed
    /\ r.some \/ ended < MaxEndedPulls
    /\ cursor' = r.cursor
    /\ previous' = r.previous
    /\ emitted' = IF r.some THEN Append(emitted, token) ELSE emitted
    /\ position' = IF r.some
                   THEN padded_line_and_column(token.start, padding, source)
                   ELSE position
    /\ ended' = IF r.some THEN ended ELSE ended + 1
    /\ UNCHANGED <<source, parsed, items, padding, constructed, consumed>>

\* What a parsing procedure left of the token stream: the number of tokens
\* it took with Parser::next, r being what it returned.
Taken(r) == r.pos - 1

\* The Parser run over the same text once the token loop has ended, as the
\* read-eval loop of main does.
ParserExpression ==
    /\ ended >= 1
    /\ parsed = NotParsed
    /\ items = NotParsed
    /\ \E r \in {padded_expression_(padding, source)} :
           /\ parsed' = r.expr
           /\ consumed' = Taken(r)
    /\ UNCHANGED <<source, cursor, previous, emitted, ended, items, position,
                   padding, constructed>>

\* Parser::parse run over the same text instead.
ParserParse ==
    /\ ended >= 1
    /\ parsed = NotParsed
    /\ items = NotParsed
    /\ \E r \in {padded_parse_loop(padding, source)} :
           /\ items' = located_items(padding, r)
           /\ consumed' = Taken(r)
    /\ UNCHANGED <<source, cursor, previous, emitted, ended, parsed, position,
                   padding, constructed>>

Next == LexerNext \/ ParserExpression \/ ParserParse

Spec == Init /\ [][Next]_vars

\* The same Lexer and Parser over identifier runs.
SpecKeywords == InitKeywords /\ [][Next]_vars

\* The same Lexer and Parser over two-operator expressions.
SpecExpressions == InitExpressions /\ [][Next]_vars

\* The same over numbers, calls, function items and commented texts.
SpecPrograms == InitPrograms /\ [][Next]_vars

\* The same over source texts around 4 GiB.
SpecLarge == InitLarge /\ [][Next]_vars

\* The same over texts of lines and of characters of several bytes.
SpecPositions == InitPositions /\ [][Next]_vars

\* The same over texts of strings, comments, operators and unrecognized
\* characters.
SpecLiterals == InitLiterals /\ [][Next]_vars

-----------------------------------------------------------------------------
(* Vocabulary of the properties. *)

Last(seq) == seq[Len(seq)]

EofIndexes == {k \in 1..Len(emitted) : emitted[k].kind = "Eof"}

ErrorIndexes == {k \in 1..Len(emitted) : emitted[k].kind = "Error"}

\* The expression-terminating set, as the specification lists it.
TerminatingKinds ==
    {"RightParen", "RightBrace", "RightBracket", "Identifier", "String", "Number",
     "Break", "Continue", "Return", "PlusPlus", "MinusMinus"}

\* A Semicolon the Lexer synthesized: it covers no text.
Synthesized(t) == t.kind = "Semicolon" /\ t.start = t.end

\* The number of characters that start before byte offset b.
CharIndex(src, b) == CHOOSE k \in 0..Len(src) : ByteOffset(src, k) = b

RECURSIVE WhitespaceEnd(_, _)
\* The number of characters before the first non-whitespace character at or
\* after character index i.
WhitespaceEnd(src, i) ==
    IF i < Len(src) /\ is_whitespace(src[i + 1]) THEN WhitespaceEnd(src, i + 1) ELSE i

\* The character indexes of the newlines of the whitespace run that starts
\* at byte offset b.
NewlinesAfter(src, b) ==
    {j \in (CharIndex(src, b) + 1)..WhitespaceEnd(src, CharIndex(src, b)) :
        src[j] = "\n"}

\* Character j of the source lies inside the span of an emitted token.
Covered(j) ==
    \E k \in 1..Len(emitted) :
        /\ emitted[k].start <= ByteOffset(source, j - 1)
        /\ ByteOffset(source, j) <= emitted[k].end

-----------------------------------------------------------------------------
(* Properties of the Lexer. *)

\* C1: the tokens pulled from a Lexer hold at most one Eof, an Eof is the
\* last token yielded, and the iterator returns None only after the Eof and
\* yields nothing more from then on.
C1_SingleFinalEof ==
    /\ Cardinality(EofIndexes) <= 1
    /\ \A k \in EofIndexes : k = Len(emitted)
    /\ ended >= 1 => Cardinality(EofIndexes) = 1

\* C1 witness: the iterator was pulled twice after a three-token sequence
\* ended with Eof.
C1_Witness ==
    /\ ended >= 2
    /\ Len(emitted) = 3
    /\ Last(emitted).kind = "Eof"

C3_NoFalseKeyword ==
    \A k \in 1..Len(emitted) :
        emitted[k].kind \in KeywordKinds
            => text(source, emitted[k]) = ReservedWord(emitted[k].kind)

\* C4: each reserved word, lexed as a complete identifier run, yields one
\* token of its own keyword kind that spans the word.
C4_ReservedWords ==
    \A kind \in KeywordKinds :
        (source = ReservedWord(kind) /\ emitted # <<>>)
            => emitted[1] = Token(kind, 0, Len(source))

\* C4 witness: the longest reserved word was lexed to Continue and Eof.
C4_Witness ==
    /\ source = W_continue
    /\ Len(emitted) = 2
    /\ emitted[1].kind = "Continue"
    /\ emitted[2].kind = "Eof"

\* C5: when a token of the expression-terminating set is followed by
\* whitespace that holds a newline, the next token pulled is a zero-width
\* Semicolon at the offset of one of these newlines, and the token after it
\* is not another synthesized Semicolon.
C5_SemicolonAtNewline ==
    \A k \in 1..(Len(emitted) - 1) :
        (/\ emitted[k].kind \in TerminatingKinds
         /\ NewlinesAfter(source, emitted[k].end) # {})
            => /\ Synthesized(emitted[k + 1])
               /\ \E j \in NewlinesAfter(source, emitted[k].end) :
                      emitted[k + 1].start = ByteOffset(source, j - 1)
               /\ k + 2 <= Len(emitted) => ~Synthesized(emitted[k + 2])

\* C6: a Semicolon is synthesized only after a token of the
\* expression-terminating set: never as the first token, never after an
\* operator, a Semicolon, a Comment or an Error.
C6_NoSemicolonElsewhere ==
    \A k \in 1..Len(emitted) :
        Synthesized(emitted[k])
            => (k > 1 /\ emitted[k - 1].kind \in TerminatingKinds)

\* C6 witness: the text x+ followed by a newline was lexed to Identifier,
\* Plus, Eof.
C6_Witness ==
    /\ source = <<"x", "+", "\n">>
    /\ ended >= 1
    /\ Len(emitted) = 3
    /\ emitted[1].kind = "Identifier"
    /\ emitted[2].kind = "Plus"
    /\ emitted[3].kind = "Eof"

\* C7: lossless spans: every span has start <= end, each token starts at or
\* after the end of the token before it, every character scanned that no
\* token span covers is whitespace, and at the end the whole source was
\* scanned.
C7_LosslessSpans ==
    /\ \A k \in 1..Len(emitted) : emitted[k].start <= emitted[k].end
    /\ \A k \in 1..(Len(emitted) - 1) : emitted[k].end <= emitted[k + 1].start
    /\ \A j \in 1..cursor : Covered(j) \/ is_whitespace(source[j])
    /\ EofIndexes # {}
         => /\ cursor = Len(source)
            /\ Last(emitted).end = ByteOffset(source, Len(source))

\* C7 witness: a text with a comment, blanks between tokens and a token
\* after them was lexed to its end.
C7_Witness ==
    /\ EofIndexes # {}
    /\ \E k \in 1..Len(emitted) : emitted[k].kind = "Comment"
    /\ \E j \in 1..Len(source) : ~Covered(j)
    /\ Len(emitted) >= 3

-----------------------------------------------------------------------------
(* Properties of the expression parser. *)

\* The precedence levels of the infix operators, as the specification
\* orders them, highest first.
Level(op) ==
    IF op \in {"Star", "Slash", "Percent"} THEN 10
    ELSE IF op \in {"Plus", "Minus"} THEN 9
    ELSE IF op \in {"Shl", "Shr"} THEN 8
    ELSE IF op = "And" THEN 7
    ELSE IF op = "Caret" THEN 6
    ELSE IF op = "Or" THEN 5
    ELSE IF op \in ComparisonTokens THEN 4
    ELSE IF op = "AndAnd" THEN 3
    ELSE IF op = "OrOr" THEN 2
    ELSE 1

AssignmentFamily == {"Eq"} \cup CompoundAssignmentTokens

\* The source is an expression x op1 y op2 z of operands of the given
\* kinds, followed by a Semicolon or by the end of input.
TwoOperatorExpression(toks, operandKinds) ==
    /\ Len(toks) >= 6
    /\ \A k \in {1, 3, 5} : toks[k].kind \in operandKinds
    /\ \A k \in {2, 4} : toks[k].kind \in InfixTokens
    /\ toks[6].kind \in {"Semicolon", "Eof"}

\* The expression an operand token stands for.
Operand(tok) ==
    IF tok.kind = "Number"
    THEN LiteralInteger(StripZeros(text(source, tok)))
    ELSE [node |-> "Ident", start |-> tok.start, end |-> tok.end]

\* op1(x, y) grouped first: op2(op1(x, y), z).
GroupedLeft(toks) ==
    infix_operator(
        infix_operator(Operand(toks[1]), toks[2].kind, Operand(toks[3])),
        toks[4].kind, Operand(toks[5]))

\* op2(y, z) grouped first: op1(x, op2(y, z)).
GroupedRight(toks) ==
    infix_operator(
        Operand(toks[1]), toks[2].kind,
        infix_operator(Operand(toks[3]), toks[4].kind, Operand(toks[5])))

\* C8: precedence: an expression x op1 y op2 z whose operators are of
\* different levels parses to the tree that groups the operator of the
\* higher level first.
C8_Precedence ==
    parsed # NotParsed =>
        LET toks == Tokens(source) IN
        (/\ TwoOperatorExpression(toks, {"Number"})
         /\ Level(toks[2].kind) # Level(toks[4].kind))
            => parsed = IF Level(toks[2].kind) > Level(toks[4].kind)
                        THEN GroupedLeft(toks)
                        ELSE GroupedRight(toks)

\* C8, where the expression is followed by a Semicolon (explicit, or
\* synthesized at a newline): the grouping is the claimed one.
C8_PrecedenceBeforeSemicolon ==
    parsed # NotParsed =>
        LET toks == Tokens(source) IN
        (/\ TwoOperatorExpression(toks, {"Number"})
         /\ toks[6].kind = "Semicolon"
         /\ Level(toks[2].kind) # Level(toks[4].kind))
            => parsed = IF Level(toks[2].kind) > Level(toks[4].kind)
                        THEN GroupedLeft(toks)
                        ELSE GroupedRight(toks)

\* C9: left associativity: an expression x op1 y op2 z whose operators are
\* of the same level, outside the assignment family, parses to
\* op2(op1(x, y), z).
C9_LeftAssociative ==
    parsed # NotParsed =>
        LET toks == Tokens(source) IN
        (/\ TwoOperatorExpression(toks, {"Number"})
         /\ toks[2].kind \notin AssignmentFamily
         /\ Level(toks[2].kind) = Level(toks[4].kind))
            => parsed = GroupedLeft(toks)

\* C9, where the expression is followed by a Semicolon.
C9_LeftAssociativeBeforeSemicolon ==
    parsed # NotParsed =>
        LET toks == Tokens(source) IN
        (/\ TwoOperatorExpression(toks, {"Number"})
         /\ toks[6].kind = "Semicolon"
         /\ toks[2].kind \notin AssignmentFamily
         /\ Level(toks[2].kind) = Level(toks[4].kind))
            => parsed = GroupedLeft(toks)

\* C10: right associativity: an expression x op1 y op2 z whose first
\* operator is of the assignment family parses to op1(x, op2(y, z)), for an
\* op2 of the assignment family and for every op2 of a higher level, over
\* number operands and over identifier operands.
C10_RightAssociative ==
    parsed # NotParsed =>
        LET toks == Tokens(source) IN
        (/\ TwoOperatorExpression(toks, {"Number", "Identifier"})
         /\ toks[2].kind \in AssignmentFamily)
            => parsed = GroupedRight(toks)

\* C10, over number operands where the expression is followed by a
\* Semicolon.
C10_RightAssociativeNumbersBeforeSemicolon ==
    parsed # NotParsed =>
        LET toks == Tokens(source) IN
        (/\ TwoOperatorExpression(toks, {"Number"})
         /\ toks[6].kind = "Semicolon"
         /\ toks[2].kind \in AssignmentFamily)
            => parsed = GroupedRight(toks)

-----------------------------------------------------------------------------
(* Properties of calls, indexes and numbers. *)

\* The kinds of the first n tokens.
Kinds(toks, n) == [k \in 1..n |-> toks[k].kind]

\* The source is x(a, b)[i] of single-token operands, followed by a
\* Semicolon or by the end of input.
TwoParameterCallIndexed(toks) ==
    /\ Len(toks) >= 10
    /\ toks[1].kind \in {"Number", "Identifier"}
    /\ SubSeq(Kinds(toks, 9), 2, 9) =
           <<"LeftParen", "Number", "Comma", "Number", "RightParen",
             "LeftBracket", "Number", "RightBracket">>
    /\ toks[10].kind \in {"Semicolon", "Eof"}

\* C11: postfix composition: a call with two parameters followed by an
\* index, x(a, b)[i], parses to Index(Call(x, [a, b]), i): the operators
\* apply left to right and the parameters keep their source order.
C11_PostfixComposition ==
    parsed # NotParsed =>
        LET toks == Tokens(source) IN
        TwoParameterCallIndexed(toks)
            => parsed = index(call(Operand(toks[1]),
                                   <<Operand(toks[3]), Operand(toks[5])>>),
                              Operand(toks[8]))

\* C11, for what the code does parse: a number called with one parameter
\* and indexed, before a Semicolon, is Index(Call(x, [a]), i), and a number
\* indexed and then called is Call(Index(x, i), [a]).
C11_OneParameterBeforeSemicolon ==
    parsed # NotParsed =>
        LET toks == Tokens(source) IN
        /\ (/\ Len(toks) >= 8
            /\ Kinds(toks, 8) = <<"Number", "LeftParen", "Number", "RightParen",
                                  "LeftBracket", "Number", "RightBracket", "Semicolon">>)
               => parsed = index(call(Operand(toks[1]), <<Operand(toks[3])>>),
                                 Operand(toks[6]))
        /\ (/\ Len(toks) >= 8
            /\ Kinds(toks, 8) = <<"Number", "LeftBracket", "Number", "RightBracket",
                                  "LeftParen", "Number", "RightParen", "Semicolon">>)
               => parsed = call(index(Operand(toks[1]), Operand(toks[3])),
                                <<Operand(toks[6])>>)

\* The error result of a Number whose value does not fit in 64 bits.
IntegerOverflow == [node |-> "Error", error |-> "IntegerOverflow"]

\* The source is one Number followed by a Semicolon.
NumberStatement(toks) ==
    /\ Len(toks) >= 2
    /\ toks[1].kind = "Number"
    /\ toks[2].kind = "Semicolon"

\* C12: a Number whose decimal text exceeds 2^64 - 1 makes the parse fail
\* with the IntegerOverflow error result, and every Number of a value up to
\* 2^64 - 1 is the Integer literal of exactly that value.
C12_OverflowIsAnError ==
    parsed # NotParsed =>
        LET toks == Tokens(source) IN
        NumberStatement(toks)
            => parsed = IF Overflows(text(source, toks[1]))
                        THEN IntegerOverflow
                        ELSE LiteralInteger(StripZeros(text(source, toks[1])))

\* C12, for what the code does: a Number before a Semicolon is the Integer
\* literal of its value when the value is at most 2^64 - 1, and otherwise
\* the parse aborts: no Integer holds a wrapped or truncated value.
C12_InRangeOrAbort ==
    parsed # NotParsed =>
        LET toks == Tokens(source) IN
        NumberStatement(toks)
            => parsed = IF Overflows(text(source, toks[1]))
                        THEN Panic("unwrap on Err")
                        ELSE LiteralInteger(StripZeros(text(source, toks[1])))

-----------------------------------------------------------------------------
(* Properties of Parser::parse. *)

\* The text fn add(a: i32, b: i32): i32 { a + b }
AddSource ==
    <<"f", "n", " ", "a", "d", "d", "(", "a", ":", " ", "i", "3", "2",
    ",", " ", "b", ":", " ", "i", "3", "2", ")", ":", " ", "i", "3", "2",
    " ", "{", " ", "a", " ", "+", " ", "b", " ", "}">>

\* C13: end to end: Parser::parse on AddSource returns one Function item
\* named add with the arguments a: i32 and b: i32 in this order, the return
\* type i32 and a block of the one expression statement Add(Ident(a),
\* Ident(b)).  The Idents are the spans of the tokens: add is token 2, a
\* and b are tokens 4 and 8, their types tokens 6 and 10, the return type
\* token 13, and the operands tokens 15 and 17.
C13_EndToEnd ==
    (items # NotParsed /\ source = AddSource) =>
        LET toks == Tokens(source) IN
        items = Items(<<ItemFunction(Function(
                    Ident(toks[2]),
                    <<FunctionArg(Ident(toks[4]), Ident(toks[6])),
                      FunctionArg(Ident(toks[8]), Ident(toks[10]))>>,
                    Ident(toks[13]),
                    <<StatementExpression(
                        infix_operator(Ident(toks[15]), "Plus", Ident(toks[17])))>>))>>)

\* C13, for what the code does parse: a function without statements whose
\* closing brace is followed by a newline is the one item of the text.
C13_EmptyFunctionBeforeNewline ==
    (items # NotParsed /\ source = <<"f", "n", " ", "f", "(", ")", "{", "}", "\n">>) =>
        items = Items(<<ItemFunction(Function(Ident(Tokens(source)[2]), <<>>, None, <<>>))>>)

\* The text fn 1(){};fn 2(){}; of two items, each with a number where the
\* name of the function is expected.
TwoErrorsSource ==
    <<"f", "n", " ", "1", "(", ")", "{", "}", ";", "f", "n", " ", "2", "(", ")", "{", "}", ";">>

\* C16: a syntactic error is returned as an explicit error result and does
\* not abort the parse: the result of Parser::parse is never a panic, and
\* for a text with two separate syntax errors it is an error result that
\* reports both.
C16_SyntaxErrorsAreResults ==
    items # NotParsed =>
        /\ items.node # "Panic"
        /\ source = TwoErrorsSource
               => (items.node = "Errors" /\ Len(items.errors) = 2)

-----------------------------------------------------------------------------
(* Properties of large source texts and of positions. *)

\* C14: a source text whose byte length does not fit in 32 bits is rejected
\* when the Lexer is constructed, and no token with offsets truncated
\* modulo 2^32 is produced from it.
C14_LargeSourceRejected ==
    TooLarge(padding) => (~constructed /\ emitted = <<>>)

\* C14, for what the code does: a text that fits has tokens at their true
\* offsets, after the blanks; a text that is too large is either rejected
\* by the assertion, or lexed to tokens whose offsets are short by a
\* multiple of 2^32 bytes.
C14_RejectedOrTruncated ==
    /\ ~constructed => (TooLarge(padding) /\ emitted = <<>>)
    /\ \A k \in 1..Len(emitted) :
           emitted[k].start >= (padding % U32Blocks) * BlockBytes
    /\ (Len(emitted) > 0 /\ padding = U32Blocks) => emitted[1].start < BlockBytes

\* The characters of src that start before byte offset o.
StartingBefore(src, o) == {j \in 1..Len(src) : ByteOffset(src, j - 1) < o}

\* The last newline that starts before byte offset o, 0 without one.
LastNewlineBefore(src, o) ==
    LET newlines == {j \in StartingBefore(src, o) : src[j] = "\n"}
    IN IF newlines = {} THEN 0 ELSE CHOOSE j \in newlines : \A i \in newlines : i <= j

\* 1 + the newlines that start before o, and 1 + the characters that start
\* before o after the last of these newlines.
LineAndColumn(src, o) ==
    <<1 + Cardinality({j \in StartingBefore(src, o) : src[j] = "\n"}),
      1 + Cardinality({j \in StartingBefore(src, o) : j > LastNewlineBefore(src, o)})>>

\* The byte length of the text.
ByteLen(src) == ByteOffset(src, Len(src))

\* C15: for every byte offset o into the text, up to and past its end and
\* inside a character of several bytes, as_line_and_column is the line and
\* column of LineAndColumn; offset 0 is (1, 1), an offset past the end is
\* the position of the end, and the position main computes for the start of
\* a token is the one of its offset.
C15_LineAndColumn ==
    /\ \A o \in 0..(ByteLen(source) + 2) :
           as_line_and_column(o, source) = LineAndColumn(source, o)
    /\ as_line_and_column(0, source) = <<1, 1>>
    /\ \A o \in (ByteLen(source) + 1)..(ByteLen(source) + 2) :
           as_line_and_column(o, source) = as_line_and_column(ByteLen(source), source)
    /\ position # NoPosition => position = LineAndColumn(source, Last(emitted).start)

\* C15 witness: in the text x, e acute, newline, x the Semicolon synthesized
\* at the newline, byte 3, was given line 1 and column 3, and later the
\* second Identifier line 2 and column 1.
C15_Witness ==
    /\ source = <<"x", "é", "\n", "x">>
    /\ Len(emitted) >= 3
    /\ emitted[2].start = 3
    /\ emitted[3].kind = "Identifier"
    /\ position = <<2, 1>>

-----------------------------------------------------------------------------
(* Termination of the Lexer, and Semicolons around whitespace and comments. *)

\* C17: the cursor never moves backwards, every pull that yields a token
\* other than Eof advances it by at least one character, and the tokens
\* yielded are at most the characters of the source plus one.
C17_CursorAdvances ==
    /\ [](Len(emitted) <= Len(source) + 1)
    /\ [][/\ cursor' >= cursor
          /\ (Len(emitted') > Len(emitted) /\ Last(emitted').kind # "Eof")
                => cursor' > cursor]_vars

\* C17 witness: a text was lexed to its end into as many tokens as it has
\* characters plus one, a zero-width Semicolon among them.
C17_Witness ==
    /\ ended >= 1
    /\ Len(source) >= 2
    /\ Len(emitted) = Len(source) + 1
    /\ \E k \in 1..Len(emitted) : Synthesized(emitted[k])

\* The synthesized Semicolons among the tokens after the k-th whose start
\* lies in the whitespace run that follows the k-th token.
SemicolonsOfRun(k) ==
    {m \in (k + 1)..Len(emitted) :
        /\ Synthesized(emitted[m])
        /\ emitted[m].start >= emitted[k].end
        /\ emitted[m].start <
               ByteOffset(source, WhitespaceEnd(source, CharIndex(source, emitted[k].end)))}

\* The whitespace run that starts at byte offset b is followed by the two
\* characters that open a comment, terminated or not.
CommentOpensAfter(src, b) ==
    LET i == WhitespaceEnd(src, CharIndex(src, b)) IN
    peek(src, i) = "/" /\ peek2(src, i) \in {"/", "*"}

\* C18: no two synthesized Semicolons are yielded in a row, and a run of
\* whitespace with one newline or more after a token of the
\* expression-terminating set yields exactly one Semicolon, once the pull
\* after that token has skipped the run.
C18_OneSemicolonPerRun ==
    /\ \A k \in 1..(Len(emitted) - 1) :
           ~(Synthesized(emitted[k]) /\ Synthesized(emitted[k + 1]))
    /\ \A k \in 1..(Len(emitted) - 1) :
           (/\ emitted[k].kind \in TerminatingKinds
            /\ NewlinesAfter(source, emitted[k].end) # {})
               => Cardinality(SemicolonsOfRun(k)) = 1

\* C18, for what the code does: never two synthesized Semicolons in a row,
\* never more than one Semicolon for a run of whitespace, and exactly one
\* when no comment follows the run.
C18_AtMostOneSemicolonPerRun ==
    /\ \A k \in 1..(Len(emitted) - 1) :
           ~(Synthesized(emitted[k]) /\ Synthesized(emitted[k + 1]))
    /\ \A k \in 1..(Len(emitted) - 1) :
           (/\ emitted[k].kind \in TerminatingKinds
            /\ NewlinesAfter(source, emitted[k].end) # {})
               => /\ Cardinality(SemicolonsOfRun(k)) <= 1
                  /\ ~CommentOpensAfter(source, emitted[k].end)
                        => Cardinality(SemicolonsOfRun(k)) = 1

\* Tokens k < m with only Comments and synthesized Semicolons between them,
\* one Comment at least, the m-th being neither, and a newline outside every
\* comment between the end of the k-th and the start of the m-th.
CrossesNewline(k, m) ==
    /\ \A j \in (k + 1)..(m - 1) :
           emitted[j].kind = "Comment" \/ Synthesized(emitted[j])
    /\ \E j \in (k + 1)..(m - 1) : emitted[j].kind = "Comment"
    /\ emitted[m].kind # "Comment" /\ ~Synthesized(emitted[m])
    /\ \E j \in 1..Len(source) :
           /\ source[j] = "\n"
           /\ ~Covered(j)
           /\ emitted[k].end <= ByteOffset(source, j - 1)
           /\ ByteOffset(source, j) <= emitted[m].start

\* C19: comments do not affect the insertion: when a token of the
\* expression-terminating set is followed by whitespace and comments that
\* cross a newline, exactly one zero-width Semicolon is yielded before the
\* next token that is no comment.
C19_SemicolonDespiteComments ==
    \A k \in 1..Len(emitted) : \A m \in (k + 1)..Len(emitted) :
        (emitted[k].kind \in TerminatingKinds /\ CrossesNewline(k, m))
            => Cardinality({j \in (k + 1)..(m - 1) : Synthesized(emitted[j])}) = 1

-----------------------------------------------------------------------------
(* Comments and the Parser. *)

\* Character j of src lies inside a comment.
InComment(src, j) ==
    \E k \in 1..Len(Tokens(src)) :
        /\ Tokens(src)[k].kind = "Comment"
        /\ Tokens(src)[k].start <= ByteOffset(src, j - 1)
        /\ ByteOffset(src, j) <= Tokens(src)[k].end

\* The text without its comments: each character of a comment is a blank.
Uncommented(src) == [j \in 1..Len(src) |-> IF InComment(src, j) THEN " " ELSE src[j]]

\* The text has a comment after its first token.
CommentBetweenTokens(src) ==
    /\ Tokens(src)[1].kind # "Comment"
    /\ \E k \in 2..Len(Tokens(src)) : Tokens(src)[k].kind = "Comment"

\* C20: comments are invisible to the Parser: a text with a comment between
\* two tokens parses, as an expression and as items, to what the text
\* without the comment parses to, when that one parses.
C20_CommentsInvisible ==
    /\ (/\ parsed # NotParsed
        /\ CommentBetweenTokens(source)
        /\ expression(Uncommented(source)).node # "Panic")
           => parsed = expression(Uncommented(source))
    /\ (/\ items # NotParsed
        /\ CommentBetweenTokens(source)
        /\ parse(Uncommented(source)).node # "Panic")
           => items = parse(Uncommented(source))

\* C20, for what the code does: a comment after the Semicolon that ends the
\* expression is never read by Parser::expression.
C20_CommentAfterSemicolon ==
    (parsed # NotParsed /\ source = <<"1", "+", "2", ";", "/", "/", "c">>)
        => parsed = expression(<<"1", "+", "2", ";">>)

-----------------------------------------------------------------------------
(* Properties of the loop of expression_. *)

\* The kinds of the operators the loop of expression_ continues with at the
\* minimum binding power 0: every postfix and every infix operator.
OperatorKinds == InfixTokens \cup {"LeftParen", "LeftBracket"}

\* The source starts with one Number, of a value that fits in 64 bits,
\* whose next token is no operator.
NumberBeforeOther(toks) ==
    /\ Len(toks) >= 2
    /\ toks[1].kind = "Number"
    /\ ~Overflows(text(source, toks[1]))
    /\ toks[2].kind \notin OperatorKinds

\* C21: in the loop of expression_, when the next token is no postfix and
\* no infix operator (Eof, Comma, RightBrace, a closing bracket, any other
\* token), the Parser stops and returns the accumulated left-hand side, and
\* that token is left unconsumed: of a Number followed by such a token,
\* Parser::expression returns the Integer and has taken one token.
C21_StopsAndReturns ==
    parsed # NotParsed =>
        LET toks == Tokens(source) IN
        NumberBeforeOther(toks)
            => /\ parsed = Operand(toks[1])
               /\ consumed = 1

\* C21, for what the code does: before a Semicolon, RightParen or
\* RightBracket the loop stops, returns the Integer and leaves the token;
\* before every other token that is no operator the parse aborts with the
\* kind of that token, which is left unconsumed as well.
C21_StopsOrAborts ==
    parsed # NotParsed =>
        LET toks == Tokens(source) IN
        NumberBeforeOther(toks)
            => /\ parsed = IF toks[2].kind \in {"Semicolon", "RightParen", "RightBracket"}
                           THEN Operand(toks[1])
                           ELSE Panic(toks[2].kind)
               /\ consumed = 1

\* C21, for what the code does inside brackets: the expression in
\* parentheses and the index stop at the closing bracket, which the caller
\* then takes; a call parameter before a Comma aborts with the Comma left
\* unconsumed.
C21_NestedStops ==
    parsed # NotParsed =>
        LET toks == Tokens(source) IN
        /\ (Len(toks) >= 4 /\ Kinds(toks, 4) = <<"LeftParen", "Number", "RightParen", "Semicolon">>)
               => (parsed = Operand(toks[2]) /\ consumed = 3)
        /\ (Len(toks) >= 5
            /\ Kinds(toks, 5) = <<"Number", "LeftBracket", "Number", "RightBracket", "Semicolon">>)
               => (parsed = index(Operand(toks[1]), Operand(toks[3])) /\ consumed = 4)
        /\ (Len(toks) >= 4 /\ Kinds(toks, 4) = <<"Number", "LeftParen", "Number", "Comma">>)
               => (parsed = Panic("Comma") /\ consumed = 3)

-----------------------------------------------------------------------------
(* Properties of strings, comments and unrecognized characters. *)

\* The first character of the k-th token yielded, NoChar for a token at the
\* end of input.
FirstChar(k) == peek(source, CharIndex(source, emitted[k].start))

\* The character indexes of the quotes after the quote that opens the k-th
\* token.
ClosingQuotes(k) ==
    {j \in (CharIndex(source, emitted[k].start) + 2)..Len(source) : source[j] = "\""}

\* The least element of a set of numbers that is not empty.
Least(S) == CHOOSE j \in S : \A i \in S : j <= i

\* C22: a token that starts at a quote is a String that ends just after the
\* first following quote, whatever lies between them, newlines included;
\* without a following quote it is an Error token that ends at the end of
\* input, and the token after it is Eof.  No other token is a String.
C22_StringLiteral ==
    \A k \in 1..Len(emitted) :
        /\ FirstChar(k) = "\"" =>
               IF ClosingQuotes(k) # {}
               THEN /\ emitted[k].kind = "String"
                    /\ emitted[k].end = ByteOffset(source, Least(ClosingQuotes(k)))
               ELSE /\ emitted[k].kind = "Error"
                    /\ emitted[k].end = ByteLen(source)
                    /\ k < Len(emitted) => (k + 1 = Len(emitted) /\ emitted[k + 1].kind = "Eof")
        /\ emitted[k].kind = "String" => FirstChar(k) = "\""

\* C22 witness: the text quote, newline, quote, quote was lexed to a String
\* over the first three bytes, an Error over the last quote, and Eof.
C22_Witness ==
    /\ source = <<"\"", "\n", "\"", "\"">>
    /\ emitted = <<Token("String", 0, 3), Token("Error", 3, 4), Token("Eof", 4, 4)>>

\* The k-th token yielded starts at the two characters that open a block
\* comment.
OpensBlockComment(k) ==
    /\ FirstChar(k) = "/"
    /\ peek2(source, CharIndex(source, emitted[k].start)) = "*"

\* The character indexes of the stars of the closing pairs star, slash that
\* start two characters or more after the slash that opens the k-th token.
ClosingStars(k) ==
    {j \in (CharIndex(source, emitted[k].start) + 3)..(Len(source) - 1) :
        source[j] = "*" /\ source[j + 1] = "/"}

\* C23: a token that starts at slash, star is a Comment that ends just
\* after the first closing pair star, slash that starts two bytes or more
\* after the opening slash; without such a pair it is an Error token that
\* ends at the end of input, the only token before Eof.
C23_BlockComment ==
    \A k \in 1..Len(emitted) :
        OpensBlockComment(k) =>
            IF ClosingStars(k) # {}
            THEN /\ emitted[k].kind = "Comment"
                 /\ emitted[k].end = ByteOffset(source, Least(ClosingStars(k)) + 1)
            ELSE /\ emitted[k].kind = "Error"
                 /\ emitted[k].end = ByteLen(source)
                 /\ k < Len(emitted) => (k + 1 = Len(emitted) /\ emitted[k + 1].kind = "Eof")

\* C23 witness: the text slash, star, slash was lexed to one Error token
\* over its three bytes, and Eof.
C23_Witness ==
    /\ source = <<"/", "*", "/">>
    /\ emitted = <<Token("Error", 0, 3), Token("Eof", 3, 3)>>

\* The characters of operators and punctuation, each of which starts a token.
OperatorChars ==
    {"(", ")", "{", "}", "[", "]", "+", "-", "*", "/", "%", "&", "|", "^",
     "<", ">", "=", "!", "~", ".", ":", ",", ";"}

\* The character starts no token: it is no whitespace, no identifier start,
\* no digit, no quote and no operator or punctuation character.
StartsNoToken(c) ==
    /\ c # NoChar
    /\ ~is_whitespace(c)
    /\ ~is_ident1(c)
    /\ ~is_ascii_digit(c)
    /\ c # "\""
    /\ c \notin OperatorChars

\* SourceSpan::len of a token
SpanLen(t) == t.end - t.start

\* C24: every token that starts at a character that starts no token is an
\* Error token whose span has the length 1, whatever the number of bytes
\* of the character.
C24_ErrorLengthOne ==
    \A k \in 1..Len(emitted) :
        StartsNoToken(FirstChar(k))
            => (emitted[k].kind = "Error" /\ SpanLen(emitted[k]) = 1)

\* C24, for what the code does: such a token is an Error token over that
\* one character, and the length of its span is the number of bytes of the
\* character.
C24_ErrorLengthIsEncodedSize ==
    \A k \in 1..Len(emitted) :
        StartsNoToken(FirstChar(k))
            => /\ emitted[k].kind = "Error"
               /\ SpanLen(emitted[k]) = len_utf8(FirstChar(k))
               /\ text(source, emitted[k]) = <<FirstChar(k)>>

\* C24 witness: in the text x, blank, euro sign, newline, at sign, e acute
\* the euro sign was lexed to an Error token of three bytes and the at sign
\* to one of one byte.
C24_Witness ==
    /\ source = <<"x", " ", "€", "\n", "@", "é">>
    /\ Len(emitted) >= 3
    /\ emitted[2] = Token("Error", 2, 5)
    /\ emitted[3] = Token("Error", 6, 7)

-----------------------------------------------------------------------------
(* Properties of operators. *)

\* The characters of t are those of src after its first i characters.
IsPrefixAt(t, src, i) ==
    /\ i + Len(t) <= Len(src)
    /\ \A j \in 1..Len(t) : src[i + j] = t[j]

\* The characters an operator of LexedOperators starts with.
OperatorStarts == {OperatorText(op)[1] : op \in LexedOperators}

\* The k-th token yielded starts at the two characters that open a comment.
OpensComment(k) ==
    /\ FirstChar(k) = "/"
    /\ peek2(source, CharIndex(source, emitted[k].start)) \in {"/", "*"}

\* C25: longest match.  Each operator text lexed on its own is one token of
\* its kind over the whole text.  Every token that starts at an operator
\* character, a comment apart, is the operator its text spells, and no
\* operator of a longer text matches the source at its start: a longer
\* operator is never split into shorter ones.
C25_LongestMatch ==
    /\ \A op \in LexedOperators :
           (source = OperatorText(op) /\ emitted # <<>>)
               => emitted[1] = Token(op, 0, Len(source))
    /\ \A k \in 1..Len(emitted) :
           (FirstChar(k) \in OperatorStarts /\ ~OpensComment(k))
               => /\ emitted[k].kind \in LexedOperators
                  /\ text(source, emitted[k]) = OperatorText(emitted[k].kind)
                  /\ \A op \in LexedOperators :
                         IsPrefixAt(OperatorText(op), source,
                                    CharIndex(source, emitted[k].start))
                             => Len(OperatorText(op)) <= SpanLen(emitted[k])

\* C25 witness: the text 1--2 was lexed to Number, MinusMinus, Number and
\* Eof.
C25_Witness ==
    /\ source = <<"1", "-", "-", "2">>
    /\ Len(emitted) = 4
    /\ emitted[2] = Token("MinusMinus", 1, 3)
    /\ emitted[3].kind = "Number"

-----------------------------------------------------------------------------
(* Properties of the binding of postfix and prefix operators. *)

\* The source is p x[i] of a prefix operator p and operands of the given
\* kinds, followed by a token of the kinds of ends.
PrefixOfIndex(toks, operandKinds, ends) ==
    /\ Len(toks) >= 6
    /\ toks[1].kind \in PrefixTokens
    /\ toks[2].kind \in operandKinds
    /\ toks[3].kind = "LeftBracket"
    /\ toks[4].kind \in operandKinds
    /\ toks[5].kind = "RightBracket"
    /\ toks[6].kind \in ends

\* The source is x o y(z) of an infix operator o.
InfixOfCall(toks, operandKinds, ends) ==
    /\ Len(toks) >= 7
    /\ toks[1].kind \in operandKinds
    /\ toks[2].kind \in InfixTokens
    /\ toks[3].kind \in operandKinds
    /\ toks[4].kind = "LeftParen"
    /\ toks[5].kind \in operandKinds
    /\ toks[6].kind = "RightParen"
    /\ toks[7].kind \in ends

\* The source is p x o y of a prefix operator p and an infix operator o.
PrefixThenInfix(toks, operandKinds, ends) ==
    /\ Len(toks) >= 5
    /\ toks[1].kind \in PrefixTokens
    /\ toks[2].kind \in operandKinds
    /\ toks[3].kind \in InfixTokens
    /\ toks[4].kind \in operandKinds
    /\ toks[5].kind \in ends

\* The trees that bind the postfix operator first, and the prefix operator
\* before the infix one, for the three shapes of source above.
BindsTightly(toks, operandKinds, ends) ==
    /\ PrefixOfIndex(toks, operandKinds, ends)
           => parsed = prefix_operator(toks[1].kind,
                                       index(Operand(toks[2]), Operand(toks[4])))
    /\ InfixOfCall(toks, operandKinds, ends)
           => parsed = infix_operator(Operand(toks[1]), toks[2].kind,
                                      call(Operand(toks[3]), <<Operand(toks[5])>>))
    /\ PrefixThenInfix(toks, operandKinds, ends)
           => parsed = infix_operator(prefix_operator(toks[1].kind, Operand(toks[2])),
                                      toks[3].kind, Operand(toks[4]))

\* C26: postfix call and index bind tighter than every prefix and every
\* infix operator, and every prefix operator binds tighter than every infix
\* operator: p x[i] parses to p(Index(x, i)), x o y(z) to o(x, Call(y, [z]))
\* and p x o y to o(p(x), y), over number and identifier operands, at the
\* end of input and before a Semicolon.
C26_PostfixAndPrefixBindTighter ==
    parsed # NotParsed =>
        BindsTightly(Tokens(source), {"Number", "Identifier"}, {"Semicolon", "Eof"})

\* C26, for what the code does parse: the same over number operands before
\* a Semicolon.
C26_NumbersBeforeSemicolon ==
    parsed # NotParsed => BindsTightly(Tokens(source), {"Number"}, {"Semicolon"})

-----------------------------------------------------------------------------
(* Properties of identifiers in expressions. *)

\* The Identifier tokens of the source, as Idents.
IdentifierIdents ==
    {Ident(Tokens(source)[k]) : k \in {j \in 1..Len(Tokens(source)) :
                                         Tokens(source)[j].kind = "Identifier"}}

\* C27: an Identifier token in primary position produces the Ident of its
\* span: an Identifier that is the whole expression parses to that Ident,
\* and a + b parses to Add(Ident(a), Ident(b)), at the end of input and
\* before a Semicolon.
C27_IdentifierIsIdent ==
    parsed # NotParsed =>
        LET toks == Tokens(source) IN
        /\ (/\ Len(toks) >= 2
            /\ toks[1].kind = "Identifier"
            /\ toks[2].kind \in {"Semicolon", "Eof"})
               => parsed = Ident(toks[1])
        /\ (/\ Len(toks) >= 4
            /\ Kinds(toks, 3) = <<"Identifier", "Plus", "Identifier">>
            /\ toks[4].kind \in {"Semicolon", "Eof"})
               => parsed = infix_operator(Ident(toks[1]), "Plus", Ident(toks[3]))

\* C27, for what the code does: an expression that starts with an
\* Identifier, or with an Identifier after an opening parenthesis, aborts
\* as not implemented once the Identifier is taken; and every name of a
\* function Parser::parse returns is the Ident of an Identifier token.
C27_IdentifierNotImplemented ==
    /\ parsed # NotParsed =>
           LET toks == Tokens(source) IN
           /\ toks[1].kind = "Identifier"
                  => (parsed = Panic("not implemented") /\ consumed = 1)
           /\ (Len(toks) >= 2 /\ Kinds(toks, 2) = <<"LeftParen", "Identifier">>)
                  => (parsed = Panic("not implemented") /\ consumed = 2)
    /\ (items # NotParsed /\ items.node = "Items")
           => \A k \in DOMAIN items.list : items.list[k].function.name \in IdentifierIdents

-----------------------------------------------------------------------------
(* Properties of the spans of the tokens. *)

\* SourceSpan::text(input) is Some: the range lies in the text and both of
\* its ends are character boundaries.
Resolves(src, t) ==
    /\ t.start <= t.end
    /\ t.end <= ByteLen(src)
    /\ is_char_boundary(src, t.start)
    /\ is_char_boundary(src, t.end)

\* C28: every token the Lexer yields has a span with start <= end <= byte
\* length of the source and both offsets on character boundaries: its span
\* resolves against the source, indexing the source with it does not
\* panic, and the text it resolves to has the byte length of the span.
C28_SpansResolve ==
    \A k \in 1..Len(emitted) :
        /\ Resolves(source, emitted[k])
        /\ ~text_panics(source, emitted[k])
        /\ ByteLen(text(source, emitted[k])) = SpanLen(emitted[k])

\* C28 witness: the text x, blank, euro sign, newline, at sign, e acute was
\* lexed to its end, the last token before Eof being the Identifier of two
\* bytes after an Error of three bytes and one of one byte.
C28_Witness ==
    /\ source = <<"x", " ", "€", "\n", "@", "é">>
    /\ Len(emitted) = 5
    /\ emitted[4] = Token("Identifier", 7, 9)
    /\ emitted[5] = Token("Eof", 9, 9)

-----------------------------------------------------------------------------
(* Properties of the end of input. *)

\* The k-th token of toks is of the expression-terminating set and only
\* whitespace without a newline lies between it and the end of the source.
EndsTheSource(toks, k) ==
    /\ toks[k].kind \in TerminatingKinds
    /\ WhitespaceEnd(source, CharIndex(source, toks[k].end)) = Len(source)
    /\ NewlinesAfter(source, toks[k].end) = {}

\* C29: the end of input is no statement terminator for the Lexer: after a
\* token of the expression-terminating set that ends the source with no
\* newline after it, the next token yielded is Eof and no Semicolon; and
\* when the Parser runs over such a text, the token it reads after that
\* token is Eof, and Parser::expression has taken no token after it.
C29_NoSemicolonAtEnd ==
    /\ \A k \in 1..(Len(emitted) - 1) :
           EndsTheSource(emitted, k) => emitted[k + 1].kind = "Eof"
    /\ (parsed # NotParsed \/ items # NotParsed)
           => \A k \in 1..(Len(Tokens(source)) - 1) :
                  EndsTheSource(Tokens(source), k)
                      => /\ parser_peek(Tokens(source), k + 1) = "Eof"
                         /\ parsed # NotParsed => consumed <= k

\* C29 witness: the text (1) without a newline was lexed to three tokens
\* and Eof, and Parser::expression took the three and aborted at the Eof.
C29_Witness ==
    /\ source = <<"(", "1", ")">>
    /\ Len(emitted) = 4
    /\ emitted[3].kind = "RightParen"
    /\ emitted[4].kind = "Eof"
    /\ parsed = Panic("Eof")
    /\ consumed = 3

-----------------------------------------------------------------------------
(* Termination of the Parser. *)

\* The procedure that was called with the next token at index p and
\* returned r took one token at least, and none the Lexer did not yield.
Advances(toks, p, r) == p < r.pos /\ r.pos <= Len(toks) + 1

\* The same for a procedure that aborts before it takes a token when the
\* next token is not the one it starts with.
AdvancesOrAborts(toks, p, r) ==
    /\ r.ok => p < r.pos
    /\ p <= r.pos
    /\ r.pos <= Len(toks) + 1

\* The minimum binding powers expression_ is called with.
BindingPowers == {0, 1, 4, 6, 8, 10, 12, 14, 16, 18, 20, 23}

\* C30: the Parser terminates, by returning or by aborting, having taken
\* no more tokens than the Lexer yields.  From every token of the source,
\* a call of expression_ takes one token or more before it returns, and so
\* does Parser::ident, with which each turn of the function-argument loop
\* starts; each of the loops over call parameters, function arguments and
\* items takes a token or more unless it ends at once; the lookahead past
\* the last token reads Eof; and items are returned only with every token
\* before the Eof taken.
C30_ParserTerminates ==
    (parsed # NotParsed \/ items # NotParsed) =>
        LET toks == Tokens(source) IN
        /\ consumed <= Len(toks)
        /\ \A p \in 1..Len(toks) :
               /\ \A mbp \in BindingPowers :
                      Advances(toks, p, expression_(toks, source, p, mbp))
               /\ Advances(toks, p, ident(toks, p))
               /\ parser_peek(toks, p) \notin {"RightParen", "Eof"}
                      => /\ Advances(toks, p, call_params(toks, source, p, <<>>))
                         /\ Advances(toks, p, function_args(toks, p, <<>>))
               /\ ~eof(toks, p)
                      => AdvancesOrAborts(toks, p, parse_loop(toks, source, p, <<>>))
        /\ \A p \in (Len(toks) + 1)..(Len(toks) + 2) : parser_peek(toks, p) = "Eof"
        /\ (items # NotParsed /\ items.node = "Items") => consumed = Len(toks) - 1
        /\ (parsed # NotParsed /\ parsed.node # "Panic")
               => parser_peek(toks, consumed + 1) \in {"Semicolon", "RightParen", "RightBracket"}

\* C30 witness: Parser::parse returned the two items of a text of two
\* functions, the first with two arguments, having taken the 23 tokens
\* before the Eof.
C30_Witness ==
    /\ source = <<"f", "n", " ", "f", "(", "a", ":", "i", "3", "2", ",", "b", ":",
                  "u", "8", ")", "{", "}", "\n", "f", "n", " ", "g", "(", ")", "{",
                  "1", ";", "}", "\n">>
    /\ items # NotParsed
    /\ items.node = "Items"
    /\ Len(items.list) = 2
    /\ Len(items.list[1].function.args) = 2
    /\ consumed = 23

====
